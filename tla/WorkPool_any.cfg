\* Any calls in any order: Submit, Close, Wait and Err race, two goroutines may
\* Close and two may Wait, work functions may report through Err or panic.
\* A worker that recovered a panic leaves Wait hanging: the system may stop.
SPECIFICATION Spec
CONSTANTS
  t1 = t1  t2 = t2  t3 = t3  s1 = s1  s2 = s2
  Task = {t1, t2}
  NWorkers = 0
  NumCPU = 2
  Submitter = {s1, s2}
  Assigned <- MCAssigned
  Closer = {c1, c2}
  Waiter = {q1, q2}
  Reporter = {r1}
  Outcome = {"ok", "err", "report", "panic", "throw"}
  Disciplined = FALSE
INVARIANTS TypeOK Conservation Barrier WorkersFindEchOpen ErrorsGenuine
CHECK_DEADLOCK FALSE
