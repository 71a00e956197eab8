SPECIFICATION StoresSpec
CONSTANTS
    r1 = r1  r2 = r2  r3 = r3  p1 = p1  p2 = p2
    Resolvers <- ThreeResolvers
    Processes <- TwoProcesses
    ProcessOf <- TwoInOneProcess
    Generations = 2
    Keys = 1
    LockAttempts = 2
    MaxAsks = 3
    MaxCrashes = 1
    MaxUnsaved = 1
    Stalls = FALSE
    q1 = q1  q2 = q2  v1 = v1  v2 = v2
    Paths <- TwoPaths
    Options <- TwoOptions
    Unset = unset
    MaxEdits = 1
    MaxChanges = 3
    MaxSaveErrors = 1
    w1 = w1  w2 = w2  w3 = w3  n1 = n1  n2 = n2  u1 = u1  u2 = u2  u3 = u3
    Writers <- ThreeWriters
    Names <- TwoNames
    RealName = n1
    Queues <- ThreeQueues
    MaxFailures = 1
    PageLines = 2
    PageBytes = 3
    MaxText = 3
    c1 = c1  c2 = c2  m1 = m1  m2 = m2
    Callers <- TwoCallers
    Models <- TwoModels
    MaxSessions = 2
    MaxAppends = 2
    MaxSets = 1
    MaxReloads = 1
    x1 = x1  x2 = x2  i1 = i1  i2 = i2  h1 = h1  h2 = h2  k1 = k1  k2 = k2
    Vendors <- TwoVendors
    Ids <- TwoIds
    Addresses <- TwoAddresses
    Tokens <- TwoTokens
    Absent = absent
    Builtin <- TwoBuiltin
    Offers <- SomeOffers
    MaxOffers = 4
INVARIANTS
    StoresTypeOK
    
    
    
    

    
CHECK_DEADLOCK FALSE
