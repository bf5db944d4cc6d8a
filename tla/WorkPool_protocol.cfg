\* The protocol of cmp/engine.go and clone/tree.go: two submitting goroutines,
\* then Close, then Wait; work functions succeed or return an error.
SPECIFICATION FairSpec
CONSTANTS
  t1 = t1  t2 = t2  t3 = t3  s1 = s1  s2 = s2
  Task = {t1, t2, t3}
  NWorkers = 2
  NumCPU = 2
  Submitter = {s1, s2}
  Assigned <- MCAssigned
  Closer = {c1}
  Waiter = {q1}
  Reporter = {}
  Outcome = {"ok", "err"}
  Disciplined = TRUE
PROPERTIES WaitReturns PoolSpec
