SPECIFICATION S3Spec
CONSTANTS
    S3Calls = {1, 2}
    S3Inputs <- PutAndDeleteBucket
    ObjectKeys = {"a"}
    PartNumbers = {1}
    SmallBodies <- OneSmallBody
    S3Starts <- EmptyBucket
INVARIANT RefusedDeleteHarmless
CHECK_DEADLOCK FALSE
