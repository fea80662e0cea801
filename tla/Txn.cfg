CONSTANTS
  Txns = {c1, c2, c3}
  Keys = {keyA, keyB}
  Nobody = nobody
  MAX_RETRIES = 2
  c1 = c1
  c2 = c2
  c3 = c3
  keyA = keyA
  keyB = keyB
SPECIFICATION Spec
CHECK_DEADLOCK FALSE
INVARIANTS Exclusive QueueIsOfWaiters Serializable ReplicasAgree FateAgrees CompletedIsKept NoFault
PROPERTIES HeadIsNotOvertaken
