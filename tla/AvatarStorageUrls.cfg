\* The S3 driver with an endpoint: upload's URLs begin with the bucket.
CONSTANTS
  Users = {u1, u2}
  None = None
  Odd = {}
  Names = {"storage", "local", "crm"}
  Bucket = bucket
  AmazonS3 = AmazonS3
  Files = {f1, f2}
  Configs <- EndpointConfigs
  Requests = {r1, r2}
SPECIFICATION Spec
SYMMETRY Symmetry
INVARIANT UploadsAreReusable
CHECK_DEADLOCK FALSE
