SPECIFICATION FairSpec
CONSTANTS
  s1 = s1
  s2 = s2
  s3 = s3
  here = here
  there = there
  Servers = {s1, s2, s3}
  Hosts = {here, there}
  HostOf <- MCHostOf
INVARIANTS LifecycleInv OnePerHost FailuresAddUp RunningIsAnnounced
PROPERTY DestroyEnds
