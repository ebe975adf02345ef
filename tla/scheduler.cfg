CONSTANTS
  r1 = r1  r2 = r2  r3 = r3
  Req = {r1, r2, r3}
  NumReplicas = 2
  Policies = {"join-shortest-weight", "least-waiting", "round-robin", "random", "any"}
  CanFail = {1}
SPECIFICATION FairSpec
INVARIANTS TypeOK RequestInOnePlace BatchSizeMatches NoBacklog RoundRobinBalanced
PROPERTIES FifoAdmission CommitsToLeast ReplicasKept AskAnswered EntryServed
