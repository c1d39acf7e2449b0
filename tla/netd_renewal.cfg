SPECIFICATION NetdSpec
CONSTANTS
  None = None
  Task = {1, 2, 3, 4}
  Iface = {"eth0", "wlan0"}
  Ip6 = {"six1"}
  MaxRetries = 2
  CacheMax = 2
  Workloads <- RenewalLoads
INVARIANT LeaseHasRenewal
CHECK_DEADLOCK FALSE
