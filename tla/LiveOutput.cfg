SPECIFICATION PartSpec
CONSTANTS
  Recordings <- PipeRecordings
  Capacity = 2
  Probe = 1
  Slack = 1
  HttpRecordings = 2
  Chunks = 3
  Timeout = 4
  Limits = {0, 2}
INVARIANT StreamsAreMuxed
INVARIANT FilesOutliveJobs
INVARIANT RecordingIsAhead
PROPERTY PipeEnds
CHECK_DEADLOCK FALSE
