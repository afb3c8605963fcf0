SPECIFICATION FairSpec
CONSTANTS
  w1 = w1 w2 = w2 h1 = h1
  Workers <- DriveWorkers
  Threads <- DriveThreads
  Deleters <- DriveDeleters
  QueueSize = 0
  Quota = 4
  Sizes <- DriveSizes
  Reports <- DriveReports
  Listings <- DriveListings
  DeletedLinks <- FailedLinks
  MaxBatch = 2
  MaxRows = 2
  MaxFaults = 1
INVARIANTS Accounted FannedOutOnce ErasedBeforeDeleted NoGhost ReservationHasOwner
PROPERTIES ListedStays PoolDrains
CHECK_DEADLOCK FALSE
