------------------------- MODULE RecordReplayProofs -------------------------
(***************************************************************************)
(* Proofs about the life of a recording, for every number of agents, turns *)
(* and entries, any faults, and every way to schedule the replay.          *)
(***************************************************************************)
EXTENDS RecordReplay, FiniteSetTheorems, SequenceTheorems, TLAPS

(* What has been recorded.                                                 *)
Filed == {file[i].request : i \in DOMAIN file}

RecorderType ==
    /\ turn \in [Agents -> 1..MaxTurns + 1]
    /\ awaited \in SUBSET R!Request /\ requests \in SUBSET R!Request
    /\ delivered \in SUBSET R!Request /\ IsFiniteSet(requests)
    /\ up \in BOOLEAN /\ run \in R!Runs /\ index \in 0..MaxEntries
    /\ file \in Seq([request : R!Request, status : R!Statuses])
    /\ answers \in SUBSET [request : R!Request, status : R!Statuses]
    /\ faults \in 0..MaxFaults

(* Run and index are unlike those of every request before.                 *)
NumberInv ==
    /\ run <= faults + 1
    /\ up => index <= Len(file) + Cardinality(requests)
    /\ \A r \in requests \cup Filed : r.run < run \/ (r.run = run /\ r.index < index)

(* A request is recorded once, when it is over and before it is answered.  *)
OnceInv ==
    /\ \A i, j \in DOMAIN file : file[i].request = file[j].request => i = j
    /\ requests \cap Filed = {}
    /\ \A m \in answers : m.request \in Filed
    /\ delivered \subseteq Filed

(* An agent waits for one answer at a time, that of its turn; what was     *)
(* recorded of later turns is behind what it was answered.                 *)
TurnInv ==
    /\ \A r \in awaited : r.turn = turn[r.agent]
    /\ \A r, s \in awaited : r.agent = s.agent => r = s
    /\ \A r \in requests \cup Filed : r.turn <= turn[r.agent]
    /\ \A i, j \in DOMAIN file :
          file[i].request \in delivered /\ file[i].request.agent = file[j].request.agent =>
              (file[i].request.turn < file[j].request.turn => i < j)

RecorderInv == RecorderType /\ NumberInv /\ OnceInv /\ TurnInv

-----------------------------------------------------------------------------
(* Each part counts with the operator of its own.                          *)
LEMMA SameCount == ASSUME NEW S
                   PROVE  R!Cardinality(S) = Cardinality(S) /\ P!Cardinality(S) = Cardinality(S)
BY DEF R!Cardinality, P!Cardinality, Cardinality

(* What is in the file are requests.                                       *)
LEMMA FiledType == ASSUME RecorderType PROVE Filed \in SUBSET R!Request
<1>1. file \in Seq([request : R!Request, status : R!Statuses])
  BY DEF RecorderType
<1> DEFINE E == [request : R!Request, status : R!Statuses]
<1>2. \A e \in E : e.request \in R!Request
  OBVIOUS
<1> HIDE DEF E
<1>3. \A i \in DOMAIN file : file[i] \in E
  BY <1>1, LenProperties DEF E
<1>4. QED
  BY <1>2, <1>3 DEF Filed

(* A request that is over becomes the last entry.                          *)
LEMMA Appended ==
    ASSUME RecorderInv, NEW r \in requests, NEW s \in R!Statuses, R!Entry(r, s)
    PROVE  /\ file' \in Seq([request : R!Request, status : R!Statuses])
           /\ Len(file') = Len(file) + 1 /\ DOMAIN file = 1..Len(file)
           /\ DOMAIN file' = DOMAIN file \cup {Len(file) + 1} /\ Len(file) \in Nat
           /\ file'[Len(file) + 1].request = r
           /\ \A i \in DOMAIN file : file'[i] = file[i]
           /\ Filed' = Filed \cup {r}
<1>1. file \in Seq([request : R!Request, status : R!Statuses]) /\ r \in R!Request
  BY DEF RecorderInv, RecorderType
<1> DEFINE e == [request |-> r, status |-> s]
<1>2. e \in [request : R!Request, status : R!Statuses] /\ e.request = r
  BY <1>1
<1>3. file' = Append(file, e)
  BY DEF R!Entry
<1> HIDE DEF e
<1>4. /\ file' \in Seq([request : R!Request, status : R!Statuses])
      /\ Len(file') = Len(file) + 1 /\ DOMAIN file = 1..Len(file) /\ Len(file) \in Nat
      /\ file'[Len(file) + 1] = e
      /\ \A i \in DOMAIN file : file'[i] = file[i]
      /\ DOMAIN file' = 1..Len(file) + 1
  BY <1>1, <1>2, <1>3
<1>5. DOMAIN file' = DOMAIN file \cup {Len(file) + 1}
  BY <1>4
<1>6. Filed' = Filed \cup {r}
  BY <1>2, <1>4, <1>5 DEF Filed
<1>7. QED
  BY <1>2, <1>4, <1>5, <1>6

(* A new request is like none before.                                      *)
LEMMA NextPost == ASSUME RecorderInv, NEW a \in Agents, R!Post(a) PROVE RecorderInv'
<1> DEFINE r == [agent |-> a, turn |-> turn[a], run |-> run, index |-> index]
<1>1. /\ up /\ turn[a] <= MaxTurns /\ Len(file) + Cardinality(requests) < MaxEntries
      /\ \A s \in awaited : s.agent # a
      /\ requests' = requests \cup {r} /\ awaited' = awaited \cup {r}
      /\ index' = index + 1
      /\ turn' = turn /\ up' = up /\ run' = run /\ file' = file /\ answers' = answers
      /\ delivered' = delivered /\ faults' = faults
  BY SameCount DEF R!Post
<1>2. /\ turn[a] \in 1..MaxTurns + 1 /\ MaxTurns \in Nat /\ MaxEntries \in Nat /\ index \in Nat
      /\ run \in R!Runs /\ IsFiniteSet(requests) /\ Len(file) \in Nat
  BY RecordReplayAssumption DEF RecorderInv, RecorderType
<1>3. Cardinality(requests) \in Nat
  BY <1>2, FS_CardinalityType
<1>4. index < MaxEntries
  BY <1>1, <1>2, <1>3 DEF RecorderInv, NumberInv
<1>5. r \in R!Request
  <2>1. turn[a] \in 1..MaxTurns /\ index \in 0..MaxEntries - 1
    BY <1>1, <1>2, <1>4
  <2>2. QED
    BY <1>2, <2>1 DEF R!Request
<1>6. r.agent = a /\ r.turn = turn[a] /\ r.run = run /\ r.index = index
  OBVIOUS
<1> HIDE DEF r
<1>7. r \notin requests \cup Filed
  <2>1. SUFFICES ASSUME r \in requests \cup Filed PROVE FALSE
    OBVIOUS
  <2>2. r.run < run \/ (r.run = run /\ r.index < index)
    BY <2>1 DEF RecorderInv, NumberInv
  <2>3. run \in Nat
    BY <1>2, RecordReplayAssumption DEF R!Runs
  <2>4. QED
    BY <1>2, <1>6, <2>2, <2>3
<1>8. Filed' = Filed
  BY <1>1 DEF Filed
<1>9. RecorderType'
  <2>1. IsFiniteSet(requests') /\ index' \in 0..MaxEntries
    BY <1>1, <1>2, <1>4, FS_AddElement
  <2>2. QED
    BY <1>1, <1>5, <2>1 DEF RecorderInv, RecorderType
<1>10. NumberInv'
  <2>1. Cardinality(requests') = Cardinality(requests) + 1
    BY <1>1, <1>2, <1>7, FS_AddElement
  <2>2. up' => index' <= Len(file') + Cardinality(requests')
    BY <1>1, <1>2, <1>3, <2>1 DEF RecorderInv, NumberInv
  <2>3. \A s \in requests \cup Filed : s.run < run' \/ (s.run = run' /\ s.index < index')
    <3>1. ASSUME NEW s \in requests \cup Filed
          PROVE  s.run < run' \/ (s.run = run' /\ s.index < index')
      <4>1. s.run < run \/ (s.run = run /\ s.index < index)
        BY DEF RecorderInv, NumberInv
      <4>2. s \in R!Request
        BY FiledType DEF RecorderInv, RecorderType
      <4>3. s.index \in Nat
        BY <4>2, RecordReplayAssumption DEF R!Request
      <4>4. QED
        BY <1>1, <1>2, <4>1, <4>3
    <3>2. QED
      BY <3>1
  <2>4. r.run = run' /\ r.index < index'
    BY <1>1, <1>2, <1>6
  <2>5. QED
    BY <1>1, <1>8, <2>2, <2>3, <2>4 DEF RecorderInv, NumberInv
<1>11. OnceInv'
  BY <1>1, <1>7, <1>8 DEF RecorderInv, OnceInv
<1>12. TurnInv'
  <2>1. \A s \in awaited' : s.turn = turn'[s.agent]
    BY <1>1, <1>6 DEF RecorderInv, TurnInv
  <2>2. \A s, t \in awaited' : s.agent = t.agent => s = t
    BY <1>1, <1>6 DEF RecorderInv, TurnInv
  <2>3. \A s \in requests' \cup Filed' : s.turn <= turn'[s.agent]
    BY <1>1, <1>2, <1>6, <1>8 DEF RecorderInv, TurnInv
  <2>4. QED
    BY <1>1, <2>1, <2>2, <2>3 DEF RecorderInv, TurnInv
<1>13. QED
  BY <1>9, <1>10, <1>11, <1>12 DEF RecorderInv

(* A request that is over moves to the file.                               *)
LEMMA NextFinish ==
    ASSUME RecorderInv, NEW r \in requests, NEW s \in R!Statuses, R!Finish(r, s)
    PROVE  RecorderInv'
<1>1. /\ up /\ R!Entry(r, s) /\ requests' = requests \ {r}
      /\ answers' = answers \cup {[request |-> r, status |-> s]}
      /\ turn' = turn /\ awaited' = awaited /\ up' = up /\ run' = run /\ index' = index
      /\ delivered' = delivered
      /\ faults' = faults \/ (faults < MaxFaults /\ faults' = faults + 1)
  BY DEF R!Finish
<1>2. /\ r \in R!Request /\ IsFiniteSet(requests) /\ faults \in 0..MaxFaults
      /\ MaxFaults \in Nat /\ index \in Nat /\ run \in Nat
  BY RecordReplayAssumption DEF RecorderInv, RecorderType, R!Runs
<1>3. /\ file' \in Seq([request : R!Request, status : R!Statuses])
      /\ Len(file') = Len(file) + 1 /\ DOMAIN file = 1..Len(file)
      /\ DOMAIN file' = DOMAIN file \cup {Len(file) + 1} /\ Len(file) \in Nat
      /\ file'[Len(file) + 1].request = r
      /\ \A i \in DOMAIN file : file'[i] = file[i]
      /\ Filed' = Filed \cup {r}
  BY <1>1, Appended
<1>4. faults' \in 0..MaxFaults /\ faults <= faults'
  BY <1>1, <1>2
<1>5. IsFiniteSet(requests') /\ Cardinality(requests') = Cardinality(requests) - 1
  BY <1>1, <1>2, FS_RemoveElement
<1>6. Cardinality(requests) \in Nat
  BY <1>2, FS_CardinalityType
<1>7. requests' \cup Filed' = requests \cup Filed
  BY <1>1, <1>3
<1>8. RecorderType'
  <2>1. [request |-> r, status |-> s] \in [request : R!Request, status : R!Statuses]
    BY <1>2
  <2>2. QED
    BY <1>1, <1>3, <1>4, <1>5, <2>1 DEF RecorderInv, RecorderType
<1>9. NumberInv'
  <2>1. run' <= faults' + 1
    <3>1. run <= faults + 1
      BY DEF RecorderInv, NumberInv
    <3>2. run' = run /\ run \in Nat /\ faults \in Nat /\ faults' \in Nat /\ faults <= faults'
      BY <1>1, <1>2, <1>4
    <3>3. \A a, b, c \in Nat : a <= b + 1 /\ b <= c => a <= c + 1
      OBVIOUS
    <3>4. run' <= faults + 1
      BY <3>1, <3>2
    <3>5. QED
      BY <3>2, <3>3, <3>4
  <2>2. index' <= Len(file') + Cardinality(requests')
    BY <1>1, <1>2, <1>3, <1>5, <1>6 DEF RecorderInv, NumberInv
  <2>3. QED
    BY <1>1, <1>7, <2>1, <2>2 DEF RecorderInv, NumberInv
<1>10. OnceInv'
  <2>1. r \notin Filed
    BY DEF RecorderInv, OnceInv
  <2>2. \A i, j \in DOMAIN file' : file'[i].request = file'[j].request => i = j
    BY <1>3, <2>1 DEF RecorderInv, OnceInv, Filed
  <2>3. \A m \in answers' : m.request \in Filed'
    BY <1>1, <1>3 DEF RecorderInv, OnceInv
  <2>4. QED
    BY <1>1, <1>3, <2>2, <2>3 DEF RecorderInv, OnceInv
<1>11. TurnInv'
  <2>1. r \notin delivered
    BY DEF RecorderInv, OnceInv
  <2>2. ASSUME NEW i \in DOMAIN file', NEW j \in DOMAIN file', file'[i].request \in delivered',
               file'[i].request.agent = file'[j].request.agent,
               file'[i].request.turn < file'[j].request.turn
        PROVE  i < j
    <3>1. i \in DOMAIN file
      BY <1>1, <1>3, <2>1, <2>2
    <3>2. CASE j \in DOMAIN file
      BY <1>1, <1>3, <2>2, <3>1, <3>2 DEF RecorderInv, TurnInv
    <3>3. CASE j = Len(file) + 1
      BY <1>3, <3>1, <3>3
    <3>4. QED
      BY <1>3, <3>2, <3>3
  <2>3. QED
    <3>1. \A t \in awaited' : t.turn = turn'[t.agent]
      BY <1>1 DEF RecorderInv, TurnInv
    <3>2. \A t, v \in awaited' : t.agent = v.agent => t = v
      BY <1>1 DEF RecorderInv, TurnInv
    <3>3. \A t \in requests' \cup Filed' : t.turn <= turn'[t.agent]
      BY <1>1, <1>7 DEF RecorderInv, TurnInv
    <3>4. \A i, j \in DOMAIN file' :
              file'[i].request \in delivered' /\ file'[i].request.agent = file'[j].request.agent =>
                  (file'[i].request.turn < file'[j].request.turn => i < j)
      BY <2>2
    <3>5. QED
      BY <3>1, <3>2, <3>3, <3>4 DEF TurnInv
<1>12. QED
  BY <1>8, <1>9, <1>10, <1>11 DEF RecorderInv

(* An answer reaches its agent, or one that no longer waits.               *)
LEMMA NextDeliver == ASSUME RecorderInv, NEW m \in answers, R!Deliver(m) PROVE RecorderInv'
<1> DEFINE r == m.request
<1>1. /\ answers' = answers \ {m}
      /\ up' = up /\ run' = run /\ index' = index /\ requests' = requests /\ file' = file
      /\ faults' = faults
  BY DEF R!Deliver
<1>2. r \in Filed /\ r \in R!Request /\ Filed' = Filed
  BY <1>1 DEF RecorderInv, RecorderType, OnceInv, Filed
<1>3. CASE r \notin awaited
  <2>1. awaited' = awaited /\ delivered' = delivered /\ turn' = turn
    BY <1>3 DEF R!Deliver
  <2>2. QED
    BY <1>1, <1>2, <2>1 DEF RecorderInv, RecorderType, NumberInv, OnceInv, TurnInv
<1>4. CASE r \in awaited
  <2>1. /\ awaited' = awaited \ {r} /\ delivered' = delivered \cup {r}
        /\ \/ turn' = [turn EXCEPT ![r.agent] = @ + 1]
           \/ turn' = turn
    BY <1>4 DEF R!Deliver
  <2>2. r.turn = turn[r.agent] /\ r.agent \in Agents /\ r.turn \in 1..MaxTurns
    BY <1>2, <1>4 DEF RecorderInv, TurnInv, R!Request
  <2>3. turn \in [Agents -> 1..MaxTurns + 1] /\ MaxTurns \in Nat
    BY RecordReplayAssumption DEF RecorderInv, RecorderType
  <2>4. /\ turn' \in [Agents -> 1..MaxTurns + 1]
        /\ \A a \in Agents : turn[a] <= turn'[a]
        /\ \A a \in Agents \ {r.agent} : turn'[a] = turn[a]
    BY <2>1, <2>2, <2>3
  <2>5. RecorderType'
    BY <1>1, <1>2, <2>1, <2>4 DEF RecorderInv, RecorderType
  <2>6. NumberInv' /\ OnceInv'
    BY <1>1, <1>2, <2>1 DEF RecorderInv, NumberInv, OnceInv
  <2>7. \A s \in awaited' : s \in awaited /\ s.agent # r.agent /\ s.agent \in Agents
    BY <1>4, <2>1 DEF RecorderInv, RecorderType, TurnInv, R!Request
  <2>8. \A s \in awaited' : s.turn = turn'[s.agent]
    BY <2>4, <2>7 DEF RecorderInv, TurnInv
  <2>9. \A s \in requests' \cup Filed' : s.turn <= turn'[s.agent]
    <3>1. ASSUME NEW s \in requests \cup Filed PROVE s.turn <= turn'[s.agent]
      <4>1. s \in R!Request
        BY FiledType DEF RecorderInv, RecorderType
      <4>2. s.turn <= turn[s.agent]
        BY DEF RecorderInv, TurnInv
      <4>3. s.agent \in Agents /\ s.turn \in Nat
        BY <4>1, <2>3 DEF R!Request
      <4>4. turn[s.agent] \in Nat /\ turn'[s.agent] \in Nat
        BY <2>3, <2>4, <4>3
      <4>5. QED
        BY <2>4, <4>2, <4>3, <4>4
    <3>2. QED
      BY <1>1, <1>2, <3>1
  <2>10. ASSUME NEW i \in DOMAIN file', NEW j \in DOMAIN file', file'[i].request \in delivered',
                file'[i].request.agent = file'[j].request.agent,
                file'[i].request.turn < file'[j].request.turn
         PROVE  i < j
    <3>1. CASE file[i].request \in delivered
      BY <1>1, <2>10, <3>1 DEF RecorderInv, TurnInv
    <3>2. CASE file[i].request = r
      <4>1. file[j].request \in Filed
        BY <1>1 DEF Filed
      <4>2. file[j].request.turn <= turn[r.agent]
        BY <1>1, <2>10, <3>2, <4>1 DEF RecorderInv, TurnInv
      <4>3. file[j].request.turn \in Nat /\ turn[r.agent] \in Nat
        BY <2>2, <2>3, <4>1, FiledType DEF RecorderInv, R!Request
      <4>4. QED
        BY <1>1, <2>2, <2>10, <3>2, <4>2, <4>3
    <3>3. QED
      BY <1>1, <2>1, <2>10, <3>1, <3>2
  <2>11. TurnInv'
    <3>1. \A s, t \in awaited' : s.agent = t.agent => s = t
      BY <2>7 DEF RecorderInv, TurnInv
    <3>2. \A i, j \in DOMAIN file' :
              file'[i].request \in delivered' /\ file'[i].request.agent = file'[j].request.agent =>
                  (file'[i].request.turn < file'[j].request.turn => i < j)
      BY <2>10
    <3>3. QED
      BY <2>8, <2>9, <3>1, <3>2 DEF TurnInv
  <2>12. QED
    BY <2>5, <2>6, <2>11 DEF RecorderInv
<1>5. QED
  BY <1>3, <1>4

(* Whatever the proxy and its agents do.                                   *)
LEMMA NextRecorder == ASSUME RecorderInv, R!Next PROVE RecorderInv'
<1>1. CASE \E a \in Agents : R!Post(a)
  BY <1>1, NextPost
<1>2. CASE \E r \in requests, s \in R!Statuses : R!Finish(r, s)
  BY <1>2, NextFinish
<1>3. CASE \E m \in answers : R!Deliver(m)
  BY <1>3, NextDeliver
<1>4. faults \in 0..MaxFaults /\ MaxFaults \in Nat /\ run \in Nat /\ index \in 0..MaxEntries
  BY RecordReplayAssumption DEF RecorderInv, RecorderType, R!Runs
<1>5. ASSUME NEW r \in awaited, R!GiveUp(r) PROVE RecorderInv'
  <2>1. /\ faults' = faults + 1 /\ faults < MaxFaults /\ awaited' = awaited \ {r}
        /\ turn' = turn /\ up' = up /\ run' = run /\ index' = index /\ requests' = requests
        /\ answers' = answers /\ file' = file /\ delivered' = delivered
    BY <1>5 DEF R!GiveUp, R!proxyVars
  <2>2. faults' \in 0..MaxFaults /\ (run <= faults + 1 => run <= faults' + 1)
    BY <1>4, <2>1
  <2>3. Filed' = Filed
    BY <2>1 DEF Filed
  <2>4. QED
    BY <2>1, <2>2, <2>3 DEF RecorderInv, RecorderType, NumberInv, OnceInv, TurnInv
<1>6. CASE R!Stop
  <2>1. /\ up' = FALSE /\ requests' = {} /\ answers' = {} /\ awaited' = {} /\ faults' = faults
        /\ turn' = turn /\ run' = run /\ index' = index /\ file' = file /\ delivered' = delivered
    BY <1>6 DEF R!Stop
  <2>2. Filed' = Filed /\ IsFiniteSet(requests')
    BY <2>1, FS_EmptySet DEF Filed
  <2>3. QED
    BY <2>1, <2>2 DEF RecorderInv, RecorderType, NumberInv, OnceInv, TurnInv
<1>7. CASE R!Start
  <2>1. /\ faults < MaxFaults /\ faults' = faults + 1 /\ up' = TRUE /\ run' = run + 1 /\ index' = 0
        /\ turn' = turn /\ awaited' = awaited /\ requests' = requests /\ answers' = answers
        /\ file' = file /\ delivered' = delivered
    BY <1>7 DEF R!Start
  <2>2. Filed' = Filed /\ Len(file) \in Nat /\ Cardinality(requests) \in Nat
    BY <2>1, FS_CardinalityType DEF Filed, RecorderInv, RecorderType
  <2>3. /\ run' \in R!Runs /\ run' <= faults' + 1 /\ faults' \in 0..MaxFaults
        /\ index' \in 0..MaxEntries
    BY <1>4, <2>1, RecordReplayAssumption DEF RecorderInv, NumberInv, R!Runs
  <2>4. \A r \in requests' \cup Filed' : r.run < run'
    <3>1. ASSUME NEW r \in requests \cup Filed PROVE r.run < run'
      <4>1. r.run < run \/ r.run = run
        BY DEF RecorderInv, NumberInv
      <4>2. r \in R!Request
        BY FiledType DEF RecorderInv, RecorderType
      <4>3. r.run \in Nat
        BY <4>2, RecordReplayAssumption DEF R!Request, R!Runs
      <4>4. QED
        BY <1>4, <2>1, <4>1, <4>3
    <3>2. QED
      BY <2>1, <2>2, <3>1
  <2>5. index' <= Len(file') + Cardinality(requests')
    BY <2>1, <2>2
  <2>6. QED
    BY <2>1, <2>2, <2>3, <2>4, <2>5 DEF RecorderInv, RecorderType, NumberInv, OnceInv, TurnInv
<1>8. QED
  BY <1>1, <1>2, <1>3, <1>5, <1>6, <1>7 DEF R!Next

(* What was answered is recorded once, and an agent's answers in order.    *)
LEMMA RecordingIsTrue == RecorderInv => R!DeliveredIsRecorded
<1> SUFFICES ASSUME RecorderInv, NEW r \in delivered
             PROVE  /\ Cardinality(R!Entries(r)) = 1
                    /\ \A s \in delivered : r.agent = s.agent /\ r.turn < s.turn =>
                          \A i \in R!Entries(r), j \in R!Entries(s) : i < j
  BY SameCount DEF R!DeliveredIsRecorded
<1>1. PICK k \in DOMAIN file : file[k].request = r
  BY DEF RecorderInv, OnceInv, Filed
<1>2. R!Entries(r) = {k}
  BY <1>1 DEF R!Entries, RecorderInv, OnceInv
<1>3. Cardinality(R!Entries(r)) = 1
  BY <1>2, FS_Singleton
<1>4. ASSUME NEW s \in delivered, r.agent = s.agent, r.turn < s.turn,
             NEW i \in R!Entries(r), NEW j \in R!Entries(s)
      PROVE  i < j
  BY <1>4 DEF R!Entries, RecorderInv, TurnInv
<1>5. QED
  BY <1>3, <1>4

-----------------------------------------------------------------------------
(* The player.                                                             *)
Outcome == [item : P!Items, ok : BOOLEAN, text : BOOLEAN]
Capacity == P!Slots(historyMode, window, entries)

PlayerType ==
    /\ historyMode \in {"live", "verbatim"} /\ openLoop \in BOOLEAN /\ window \in Nat
    /\ entries \in Seq({entries[i] : i \in P!Items})
    /\ task \in [P!Items -> {"queued", "posting", "over"}]
    /\ free \in Nat /\ failures \in 0..MaxFailures
    /\ results \in Seq(Outcome)
    /\ exit \in {P!Running, 0, 2, 3} /\ source \in {"none", "recording", "trace"}

(* No two results of the same request.                                     *)
Distinct(rs) == \A k, l \in DOMAIN rs : rs[k].item = rs[l].item => k = l
Listed(i, rs) == \E k \in DOMAIN rs : rs[k].item = i

Finished == {i \in P!Items : task[i] = "over"}

(* What is over has one result, and what is saved is one of everything.    *)
ResultInv ==
    /\ Distinct(results) /\ Len(results) = Cardinality(Finished)
    /\ \A i \in P!Items : task[i] = "over" <=> Listed(i, results)
    /\ exit = P!Running => saved = P!NotSaved
    /\ saved # P!NotSaved =>
          /\ saved \in Seq(Outcome) /\ Len(saved) = Len(entries)
          /\ Distinct(saved) /\ \A i \in P!Items : Listed(i, saved)
    /\ source = "recording" => P!Items = DOMAIN file

(* A turn of a session is sent after the answer to the one before.         *)
OrderInv ==
    P!SessionAware => \A i, j \in P!Items :
        P!Session(i) = P!Session(j) /\ i < j /\ task[j] # "queued" => task[i] = "over"

(* Slots are held by sessions under way, or by single requests.            *)
ActiveSessions == {s \in P!Sessions : P!Active(s)}
Posting == {i \in P!Items : task[i] = "posting"}
SlotInv ==
    /\ P!SessionAware => Cardinality(ActiveSessions) + free = Capacity
    /\ ~P!SessionAware =>
          (IF P!Sequential \/ openLoop THEN 0 ELSE Cardinality(Posting)) + free = Capacity

PlayerInv == PlayerType /\ ResultInv /\ OrderInv /\ SlotInv

-----------------------------------------------------------------------------
(* As long as the player has the same entries and options, the sessions    *)
(* and the capacity are the same.                                          *)
LEMMA SameSessions ==
    ASSUME historyMode' = historyMode, window' = window, entries' = entries
    PROVE  /\ P!Items' = P!Items /\ P!Sessions' = P!Sessions /\ Outcome' = Outcome
           /\ P!SessionAware' <=> P!SessionAware
           /\ P!Sequential' <=> P!Sequential
           /\ \A i \in P!Items : P!Session(i)' = P!Session(i) /\ P!Fellows(i)' = P!Fellows(i)
           /\ Capacity' = Capacity
BY DEF P!Items, P!Sessions, Outcome, P!SessionAware, P!Sequential, P!Session, P!Fellows, Capacity,
   P!Slots

(* Items and sessions are finitely many.                                   *)
LEMMA FiniteItems ==
    ASSUME PlayerType
    PROVE  /\ P!Items = 1..Len(entries) /\ Len(entries) \in Nat
           /\ IsFiniteSet(P!Items) /\ Cardinality(P!Items) = Len(entries)
           /\ IsFiniteSet(P!Sessions) /\ IsFiniteSet(ActiveSessions)
           /\ \A I \in SUBSET P!Items : IsFiniteSet(I) /\ Cardinality(I) \in Nat
           /\ Cardinality(ActiveSessions) \in Nat
<1>1. P!Items = 1..Len(entries) /\ Len(entries) \in Nat
  BY DEF PlayerType, P!Items
<1>2. IsFiniteSet(1..Len(entries)) /\ Cardinality(1..Len(entries)) = Len(entries)
  <2> DEFINE n == Len(entries)
  <2>1. n \in Int /\ 1 \in Int /\ (IF 1 > n THEN 0 ELSE n - 1 + 1) = n
    BY <1>1
  <2> HIDE DEF n
  <2>2. IsFiniteSet(1..n) /\ Cardinality(1..n) = n
    BY <2>1, FS_Interval
  <2>3. QED
    BY <2>2 DEF n
<1>3. IsFiniteSet(P!Sessions)
  <2> DEFINE f == [i \in P!Items |-> P!Session(i)]
  <2>1. f \in Surjection(P!Items, P!Sessions)
    BY DEF P!Sessions, Surjection
  <2> HIDE DEF f
  <2>2. QED
    BY <1>1, <1>2, <2>1, FS_Surjection
<1>4. IsFiniteSet(ActiveSessions)
  BY <1>3, FS_Subset DEF ActiveSessions
<1>5. \A I \in SUBSET P!Items : IsFiniteSet(I) /\ Cardinality(I) \in Nat
  BY <1>1, <1>2, FS_Subset, FS_CardinalityType
<1>6. QED
  BY <1>1, <1>2, <1>3, <1>4, <1>5, FS_CardinalityType

(* A session is active when a turn of it has begun and one is not over.    *)
LEMMA ActiveIs ==
    ASSUME NEW j \in P!Items
    PROVE  P!Session(j) \in ActiveSessions <=>
              /\ \E k \in P!Fellows(j) : task[k] # "queued"
              /\ \E k \in P!Fellows(j) : task[k] # "over"
BY DEF ActiveSessions, P!Sessions, P!Active, P!Over, P!Fellows

(* The same after a step that leaves the entries.                          *)
LEMMA ActiveNext ==
    ASSUME entries' = entries, NEW j \in P!Items
    PROVE  P!Session(j) \in ActiveSessions' <=>
              /\ \E k \in P!Fellows(j) : task'[k] # "queued"
              /\ \E k \in P!Fellows(j) : task'[k] # "over"
BY DEF ActiveSessions, P!Sessions, P!Active, P!Over, P!Fellows, P!Session, P!Items

(* The step of one request leaves the other sessions as they are.          *)
LEMMA OtherSessions ==
    ASSUME PlayerType, entries' = entries,
           NEW i \in P!Items, NEW x, task' = [task EXCEPT ![i] = x]
    PROVE  \A s \in P!Sessions :
              s # P!Session(i) => (s \in ActiveSessions' <=> s \in ActiveSessions)
<1> SUFFICES ASSUME NEW s \in P!Sessions, s # P!Session(i)
             PROVE  s \in ActiveSessions' <=> s \in ActiveSessions
  OBVIOUS
<1>1. PICK j \in P!Items : s = P!Session(j)
  BY DEF P!Sessions
<1>2. P!Fellows(j) \subseteq P!Items /\ i \notin P!Fellows(j)
  BY <1>1 DEF P!Fellows
<1>3. \A k \in P!Fellows(j) : task'[k] = task[k]
  BY <1>2 DEF PlayerType
<1>4. s \in ActiveSessions <=> /\ \E k \in P!Fellows(j) : task[k] # "queued"
                               /\ \E k \in P!Fellows(j) : task[k] # "over"
  BY <1>1, ActiveIs
<1>5. s \in ActiveSessions' <=> /\ \E k \in P!Fellows(j) : task'[k] # "queued"
                                /\ \E k \in P!Fellows(j) : task'[k] # "over"
  BY <1>1, ActiveNext
<1>6. QED
  BY <1>3, <1>4, <1>5

(* A session takes a slot with its first request; the turns that follow    *)
(* use the one it has.                                                     *)
LEMMA TurnSent ==
    ASSUME PlayerInv, P!SessionAware, NEW i \in P!Items, P!SendTurn(i), task[i] = "queued",
           task' = [task EXCEPT ![i] = "posting"], entries' = entries
    PROVE  /\ \A j, k \in P!Items :
                 P!Session(j) = P!Session(k) /\ j < k /\ task'[k] # "queued" => task'[j] = "over"
           /\ free' \in Nat /\ Cardinality(ActiveSessions') + free' = Capacity
<1> DEFINE F == P!Fellows(i)
<1>1. /\ F \subseteq P!Items /\ i \in F
      /\ \A j \in F : P!Session(j) = P!Session(i)
      /\ \A j \in P!Items : P!Session(j) = P!Session(i) => j \in F
  BY DEF P!Fellows
<1>2. P!Items \subseteq Nat /\ free \in Nat /\ Capacity \in Nat
  <2>1. P!Items \subseteq Nat
    BY FiniteItems DEF PlayerInv
  <2>2. QED
    BY <2>1, RecordReplayAssumption DEF PlayerInv, PlayerType, Capacity, P!Slots
<1>3. task'[i] = "posting" /\ \A j \in P!Items \ {i} : task'[j] = task[j]
  BY DEF PlayerInv, PlayerType
<1>4. \A j, k \in P!Items :
         P!Session(j) = P!Session(k) /\ j < k /\ task[k] # "queued" => task[j] = "over"
  BY DEF PlayerInv, OrderInv
<1>5. P!Session(i) \in P!Sessions /\ ActiveSessions' \subseteq P!Sessions
      /\ ActiveSessions \subseteq P!Sessions
  BY DEF P!Sessions, ActiveSessions, P!Session, P!Items
<1>6. \A s \in P!Sessions : s # P!Session(i) => (s \in ActiveSessions' <=> s \in ActiveSessions)
  BY OtherSessions DEF PlayerInv
<1>7. /\ P!Session(i) \in ActiveSessions <=>
            (\E k \in F : task[k] # "queued") /\ (\E k \in F : task[k] # "over")
      /\ P!Session(i) \in ActiveSessions' <=>
            (\E k \in F : task'[k] # "queued") /\ (\E k \in F : task'[k] # "over")
  BY ActiveIs, ActiveNext
<1>8. P!Session(i) \in ActiveSessions'
  BY <1>1, <1>3, <1>7
<1>9. ActiveSessions' = ActiveSessions \cup {P!Session(i)}
  BY <1>5, <1>6, <1>8
<1>10. /\ IsFiniteSet(ActiveSessions) /\ Cardinality(ActiveSessions) \in Nat
       /\ Cardinality(ActiveSessions) + free = Capacity
  BY FiniteItems DEF PlayerInv, SlotInv
<1> HIDE DEF F
<1>11. CASE P!OpensSession(i)
  <2>1. free > 0 /\ free' = free - 1 /\ \A j \in F : i <= j
    BY <1>11 DEF P!SendTurn, P!OpensSession, F
  <2>2. \A j \in F : task[j] = "queued"
    <3>1. SUFFICES ASSUME NEW j \in F, task[j] # "queued" PROVE FALSE
      OBVIOUS
    <3>2. i < j
      BY <1>1, <1>2, <2>1, <3>1
    <3>3. QED
      BY <1>1, <1>4, <3>1, <3>2
  <2>3. P!Session(i) \notin ActiveSessions
    BY <1>7, <2>2
  <2>4. Cardinality(ActiveSessions') = Cardinality(ActiveSessions) + 1
    BY <1>9, <1>10, <2>3, FS_AddElement
  <2>5. free' \in Nat /\ Cardinality(ActiveSessions') + free' = Capacity
    BY <1>2, <1>10, <2>1, <2>4
  <2>6. ASSUME NEW j \in P!Items, NEW k \in P!Items, P!Session(j) = P!Session(k), j < k,
               task'[k] # "queued"
        PROVE  task'[j] = "over"
    <3>1. k # i
      BY <1>1, <1>2, <2>1, <2>6
    <3>2. task[j] = "over"
      BY <1>3, <1>4, <2>6, <3>1
    <3>3. QED
      BY <1>3, <3>2
  <2>7. QED
    BY <2>5, <2>6
<1>12. CASE ~P!OpensSession(i)
  <2>1. free' = free /\ \A j \in F : j < i => task[j] = "over"
    BY <1>12 DEF P!SendTurn, P!Over, F
  <2>2. PICK j \in F : j < i
    <3>1. PICK j \in F : ~(i <= j)
      BY <1>12 DEF P!OpensSession, F
    <3>2. j \in Nat /\ i \in Nat
      BY <1>1, <1>2
    <3>3. QED
      BY <3>1, <3>2
  <2>3. P!Session(i) \in ActiveSessions
    BY <1>1, <1>7, <2>1, <2>2
  <2>4. ActiveSessions' = ActiveSessions
    BY <1>9, <2>3
  <2>5. free' \in Nat /\ Cardinality(ActiveSessions') + free' = Capacity
    BY <1>2, <1>10, <2>1, <2>4
  <2>6. ASSUME NEW l \in P!Items, NEW k \in P!Items, P!Session(l) = P!Session(k), l < k,
               task'[k] # "queued"
        PROVE  task'[l] = "over"
    <3>1. task[l] = "over"
      BY <1>1, <1>3, <1>4, <2>1, <2>6
    <3>2. QED
      BY <1>3, <3>1
  <2>7. QED
    BY <2>5, <2>6
<1>13. QED
  BY <1>11, <1>12

(* A request is sent.                                                      *)
LEMMA NextSend ==
    ASSUME PlayerInv, NEW i \in P!Items, P!Send(i), file' = file, source' = source
    PROVE  PlayerInv'
<1>1. /\ exit = P!Running /\ task[i] = "queued" /\ task' = [task EXCEPT ![i] = "posting"]
      /\ P!SendNext(i) \/ P!SendTurn(i) \/ P!SendAny(i)
      /\ results' = results /\ failures' = failures /\ historyMode' = historyMode
      /\ openLoop' = openLoop /\ window' = window /\ entries' = entries /\ saved' = saved
      /\ exit' = exit
  BY DEF P!Send, P!Frame
<1>2. /\ P!Items' = P!Items /\ P!Sessions' = P!Sessions /\ Outcome' = Outcome
      /\ P!SessionAware' <=> P!SessionAware
      /\ P!Sequential' <=> P!Sequential
      /\ \A j \in P!Items : P!Session(j)' = P!Session(j)
      /\ Capacity' = Capacity
  BY <1>1, SameSessions
<1>3. task' \in [P!Items -> {"queued", "posting", "over"}]
  BY <1>1 DEF PlayerInv, PlayerType
<1>4. task'[i] = "posting" /\ \A j \in P!Items \ {i} : task'[j] = task[j]
  BY <1>1 DEF PlayerInv, PlayerType
<1>5. ResultInv'
  <2>1. Finished' = Finished
    BY <1>1, <1>2, <1>4 DEF Finished
  <2>2. \A j \in P!Items : task'[j] = "over" <=> task[j] = "over"
    BY <1>1, <1>4
  <2>3. QED
    BY <1>1, <1>2, <2>1, <2>2 DEF PlayerInv, ResultInv, Distinct, Listed
<1>6. CASE P!SessionAware
  <2>1. P!SendTurn(i)
    BY <1>1, <1>6 DEF P!SendNext, P!SendAny, P!SessionAware, P!Sequential
  <2>2. /\ \A j, k \in P!Items :
              P!Session(j) = P!Session(k) /\ j < k /\ task'[k] # "queued" => task'[j] = "over"
        /\ free' \in Nat /\ Cardinality(ActiveSessions') + free' = Capacity
    BY <1>1, <1>6, <2>1, TurnSent
  <2>3. OrderInv' /\ SlotInv'
    BY <1>2, <1>6, <2>2 DEF OrderInv, SlotInv
  <2>4. QED
    BY <1>1, <1>2, <1>3, <1>5, <2>2, <2>3 DEF PlayerInv, PlayerType
<1>7. CASE ~P!SessionAware
  <2>1. Posting' = Posting \cup {i} /\ i \notin Posting /\ Posting \in SUBSET P!Items
    BY <1>1, <1>2, <1>4 DEF Posting
  <2>2. IsFiniteSet(Posting) /\ Cardinality(Posting) \in Nat
    BY <2>1, FiniteItems DEF PlayerInv
  <2>3. Cardinality(Posting') = Cardinality(Posting) + 1
    BY <2>1, <2>2, FS_AddElement
  <2>4. IF P!Sequential \/ openLoop THEN free' = free ELSE free > 0 /\ free' = free - 1
    BY <1>1, <1>7 DEF P!SendNext, P!SendTurn, P!SendAny
  <2>5. free \in Nat
    BY DEF PlayerInv, PlayerType
  <2>6. /\ free' \in Nat
        /\ (IF P!Sequential \/ openLoop THEN 0 ELSE Cardinality(Posting')) + free' = Capacity
    <3>1. (IF P!Sequential \/ openLoop THEN 0 ELSE Cardinality(Posting)) + free = Capacity
      BY <1>7 DEF PlayerInv, SlotInv
    <3>2. CASE P!Sequential \/ openLoop
      BY <2>4, <2>5, <3>1, <3>2
    <3>3. CASE ~(P!Sequential \/ openLoop)
      BY <2>2, <2>3, <2>4, <2>5, <3>1, <3>3
    <3>4. QED
      BY <3>2, <3>3
  <2>7. OrderInv' /\ SlotInv'
    BY <1>1, <1>2, <1>7, <2>6 DEF OrderInv, SlotInv
  <2>8. QED
    BY <1>1, <1>2, <1>3, <1>5, <2>6, <2>7 DEF PlayerInv, PlayerType
<1>8. QED
  BY <1>6, <1>7

(* A session leaves its slot with the answer to its last request.          *)
LEMMA TurnAnswered ==
    ASSUME PlayerInv, P!SessionAware, NEW i \in P!Items, task[i] = "posting",
           task' = [task EXCEPT ![i] = "over"], entries' = entries,
           free' = IF P!EndsSession(i) THEN free + 1 ELSE free
    PROVE  /\ \A j, k \in P!Items :
                 P!Session(j) = P!Session(k) /\ j < k /\ task'[k] # "queued" => task'[j] = "over"
           /\ free' \in Nat /\ Cardinality(ActiveSessions') + free' = Capacity
<1> DEFINE F == P!Fellows(i)
<1>1. /\ F \subseteq P!Items /\ i \in F
      /\ \A j \in F : P!Session(j) = P!Session(i)
  BY DEF P!Fellows
<1>2. P!Items \subseteq Nat /\ free \in Nat /\ Capacity \in Nat
  <2>1. P!Items \subseteq Nat
    BY FiniteItems DEF PlayerInv
  <2>2. QED
    BY <2>1, RecordReplayAssumption DEF PlayerInv, PlayerType, Capacity, P!Slots
<1>3. task'[i] = "over" /\ \A j \in P!Items \ {i} : task'[j] = task[j]
  BY DEF PlayerInv, PlayerType
<1>4. \A j, k \in P!Items :
         P!Session(j) = P!Session(k) /\ j < k /\ task[k] # "queued" => task[j] = "over"
  BY DEF PlayerInv, OrderInv
<1>5. P!Session(i) \in P!Sessions /\ ActiveSessions' \subseteq P!Sessions
      /\ ActiveSessions \subseteq P!Sessions
  BY DEF P!Sessions, ActiveSessions, P!Session, P!Items
<1>6. \A s \in P!Sessions : s # P!Session(i) => (s \in ActiveSessions' <=> s \in ActiveSessions)
  BY OtherSessions DEF PlayerInv
<1>7. /\ P!Session(i) \in ActiveSessions <=>
            (\E k \in F : task[k] # "queued") /\ (\E k \in F : task[k] # "over")
      /\ P!Session(i) \in ActiveSessions' <=>
            (\E k \in F : task'[k] # "queued") /\ (\E k \in F : task'[k] # "over")
  BY ActiveIs, ActiveNext
<1>8. P!Session(i) \in ActiveSessions
  BY <1>1, <1>7
<1>9. /\ IsFiniteSet(ActiveSessions) /\ Cardinality(ActiveSessions) \in Nat
      /\ Cardinality(ActiveSessions) + free = Capacity
  BY FiniteItems DEF PlayerInv, SlotInv
<1>10. \A j, k \in P!Items :
          P!Session(j) = P!Session(k) /\ j < k /\ task'[k] # "queued" => task'[j] = "over"
  <2>1. ASSUME NEW j \in P!Items, NEW k \in P!Items, P!Session(j) = P!Session(k), j < k,
               task'[k] # "queued"
        PROVE  task'[j] = "over"
    <3>1. task[j] = "over"
      BY <1>3, <1>4, <2>1
    <3>2. QED
      BY <1>3, <3>1
  <2>2. QED
    BY <2>1
<1>11. P!EndsSession(i) <=> \A j \in F : j <= i
  BY DEF P!EndsSession
<1> HIDE DEF F
<1>12. CASE P!EndsSession(i)
  <2>1. \A j \in F : task'[j] = "over"
    <3>1. ASSUME NEW j \in F, j # i PROVE task'[j] = "over"
      <4>1. j < i
        BY <1>1, <1>2, <1>11, <1>12, <3>1
      <4>2. task[j] = "over"
        BY <1>1, <1>4, <4>1
      <4>3. QED
        BY <1>1, <1>3, <3>1, <4>2
    <3>2. QED
      BY <1>3, <3>1
  <2>2. P!Session(i) \notin ActiveSessions'
    BY <1>7, <2>1
  <2>3. ActiveSessions' = ActiveSessions \ {P!Session(i)}
    BY <1>5, <1>6, <2>2
  <2>4. Cardinality(ActiveSessions') = Cardinality(ActiveSessions) - 1
    BY <1>8, <1>9, <2>3, FS_RemoveElement
  <2>5. free' \in Nat /\ Cardinality(ActiveSessions') + free' = Capacity
    BY <1>2, <1>9, <1>12, <2>4
  <2>6. QED
    BY <1>10, <2>5
<1>13. CASE ~P!EndsSession(i)
  <2>1. PICK j \in F : i < j
    <3>1. PICK j \in F : ~(j <= i)
      BY <1>11, <1>13
    <3>2. j \in Nat /\ i \in Nat
      BY <1>1, <1>2
    <3>3. QED
      BY <3>1, <3>2
  <2>2. task[j] = "queued"
    BY <1>1, <1>4, <2>1
  <2>3. j # i /\ j \in P!Items
    BY <1>1, <1>2, <2>1
  <2>4. task'[j] # "over" /\ task'[i] # "queued"
    BY <1>3, <2>2, <2>3
  <2>5. P!Session(i) \in ActiveSessions'
    BY <1>1, <1>7, <2>4
  <2>6. ActiveSessions' = ActiveSessions
    BY <1>5, <1>6, <1>8, <2>5
  <2>7. free' \in Nat /\ Cardinality(ActiveSessions') + free' = Capacity
    BY <1>2, <1>9, <1>13, <2>6
  <2>8. QED
    BY <1>10, <2>7
<1>14. QED
  BY <1>12, <1>13

(* An answer adds the result of its request, which had none.               *)
LEMMA ResultAdded ==
    ASSUME PlayerInv, NEW i \in P!Items, task[i] = "posting", task' = [task EXCEPT ![i] = "over"],
           NEW o \in Outcome, o.item = i, results' = Append(results, o), entries' = entries
    PROVE  /\ results' \in Seq(Outcome) /\ Distinct(results')
           /\ Len(results') = Cardinality(Finished')
           /\ \A j \in P!Items : task'[j] = "over" <=> Listed(j, results')
<1>1. results \in Seq(Outcome) /\ Distinct(results) /\ Len(results) = Cardinality(Finished)
      /\ \A j \in P!Items : task[j] = "over" <=> Listed(j, results)
  BY DEF PlayerInv, PlayerType, ResultInv
<1> HIDE DEF Outcome
<1>2. /\ results' \in Seq(Outcome) /\ Len(results) \in Nat /\ Len(results') = Len(results) + 1
      /\ DOMAIN results = 1..Len(results) /\ DOMAIN results' = 1..Len(results) + 1
      /\ results'[Len(results) + 1] = o
      /\ \A k \in DOMAIN results : results'[k] = results[k]
  BY <1>1
<1>3. DOMAIN results' = DOMAIN results \cup {Len(results) + 1}
  BY <1>2
<1>4. task'[i] = "over" /\ \A j \in P!Items \ {i} : task'[j] = task[j]
  BY DEF PlayerInv, PlayerType
<1>5. ~Listed(i, results)
  BY <1>1
<1>6. Distinct(results')
  BY <1>1, <1>2, <1>3, <1>5 DEF Distinct, Listed
<1>7. \A j \in P!Items : Listed(j, results') <=> Listed(j, results) \/ j = i
  BY <1>2, <1>3 DEF Listed
<1>8. Finished' = Finished \cup {i} /\ i \notin Finished /\ Finished \in SUBSET P!Items
  BY <1>4 DEF Finished, P!Items
<1>9. IsFiniteSet(Finished)
  BY <1>8, FiniteItems DEF PlayerInv
<1>10. Cardinality(Finished') = Cardinality(Finished) + 1
  BY <1>8, <1>9, FS_AddElement
<1>11. \A j \in P!Items : task'[j] = "over" <=> Listed(j, results')
  BY <1>1, <1>4, <1>7
<1>12. QED
  BY <1>1, <1>2, <1>6, <1>10, <1>11

(* A request is answered, or fails.                                        *)
LEMMA NextAnswer ==
    ASSUME PlayerInv, NEW i \in P!Items, NEW ok \in BOOLEAN, NEW text \in BOOLEAN,
           P!Answer(i, ok, text), file' = file, source' = source
    PROVE  PlayerInv'
<1> DEFINE o == [item |-> i, ok |-> ok, text |-> text]
<1>1. /\ exit = P!Running /\ task[i] = "posting" /\ task' = [task EXCEPT ![i] = "over"]
      /\ results' = Append(results, o) /\ P!Release(i, ok)
      /\ failures' = failures \/ (failures < MaxFailures /\ failures' = failures + 1)
      /\ historyMode' = historyMode /\ openLoop' = openLoop /\ window' = window
      /\ entries' = entries /\ saved' = saved /\ exit' = exit
  BY DEF P!Answer, P!Frame
<1>2. /\ P!Items' = P!Items /\ P!Sessions' = P!Sessions /\ Outcome' = Outcome
      /\ P!SessionAware' <=> P!SessionAware
      /\ P!Sequential' <=> P!Sequential
      /\ \A j \in P!Items : P!Session(j)' = P!Session(j)
      /\ Capacity' = Capacity
  BY <1>1, SameSessions
<1>3. o \in Outcome /\ o.item = i
  BY DEF Outcome
<1> HIDE DEF o
<1>4. /\ results' \in Seq(Outcome) /\ Distinct(results')
      /\ Len(results') = Cardinality(Finished')
      /\ \A j \in P!Items : task'[j] = "over" <=> Listed(j, results')
  BY <1>1, <1>3, ResultAdded
<1>5. ResultInv'
  BY <1>1, <1>2, <1>4 DEF PlayerInv, ResultInv, Distinct, Listed
<1>6. task' \in [P!Items -> {"queued", "posting", "over"}]
  BY <1>1 DEF PlayerInv, PlayerType
<1>7. failures' \in 0..MaxFailures
  BY <1>1, RecordReplayAssumption DEF PlayerInv, PlayerType
<1>8. free' \in Nat => PlayerType'
  BY <1>1, <1>2, <1>4, <1>6, <1>7 DEF PlayerInv, PlayerType
<1>9. CASE P!SessionAware
  <2>1. free' = IF P!EndsSession(i) THEN free + 1 ELSE free
    BY <1>1, <1>9 DEF P!Release
  <2>2. /\ \A j, k \in P!Items :
              P!Session(j) = P!Session(k) /\ j < k /\ task'[k] # "queued" => task'[j] = "over"
        /\ free' \in Nat /\ Cardinality(ActiveSessions') + free' = Capacity
    BY <1>1, <1>9, <2>1, TurnAnswered
  <2>3. OrderInv' /\ SlotInv'
    BY <1>2, <1>9, <2>2 DEF OrderInv, SlotInv
  <2>4. QED
    BY <1>5, <1>8, <2>2, <2>3 DEF PlayerInv
<1>10. CASE ~P!SessionAware
  <2>1. Posting' = Posting \ {i} /\ i \in Posting /\ Posting \in SUBSET P!Items
    BY <1>1, <1>2 DEF Posting, PlayerInv, PlayerType
  <2>2. IsFiniteSet(Posting) /\ Cardinality(Posting) \in Nat
    BY <2>1, FiniteItems DEF PlayerInv
  <2>3. Cardinality(Posting') = Cardinality(Posting) - 1
    BY <2>1, <2>2, FS_RemoveElement
  <2>4. free' = IF P!Sequential \/ openLoop THEN free ELSE free + 1
    BY <1>1, <1>10 DEF P!Release
  <2>5. free \in Nat
    BY DEF PlayerInv, PlayerType
  <2>6. /\ free' \in Nat
        /\ (IF P!Sequential \/ openLoop THEN 0 ELSE Cardinality(Posting')) + free' = Capacity
    <3>1. (IF P!Sequential \/ openLoop THEN 0 ELSE Cardinality(Posting)) + free = Capacity
      BY <1>10 DEF PlayerInv, SlotInv
    <3>2. CASE P!Sequential \/ openLoop
      BY <2>4, <2>5, <3>1, <3>2
    <3>3. CASE ~(P!Sequential \/ openLoop)
      BY <2>2, <2>3, <2>4, <2>5, <3>1, <3>3
    <3>4. QED
      BY <3>2, <3>3
  <2>7. OrderInv' /\ SlotInv'
    BY <1>1, <1>2, <1>10, <2>6 DEF OrderInv, SlotInv
  <2>8. QED
    BY <1>5, <1>8, <2>6, <2>7 DEF PlayerInv
<1>11. QED
  BY <1>9, <1>10

(* What is reported has one result of every request.                       *)
LEMMA ReportIsWhole ==
    ASSUME PlayerInv, P!Over(P!Items)
    PROVE  /\ P!Report \in Seq(Outcome) /\ Len(P!Report) = Len(entries)
           /\ Distinct(P!Report) /\ \A i \in P!Items : Listed(i, P!Report)
<1>1. /\ results \in Seq(Outcome) /\ Distinct(results) /\ Len(results) = Cardinality(Finished)
      /\ \A i \in P!Items : Listed(i, results)
  BY DEF PlayerInv, PlayerType, ResultInv, P!Over
<1>2. P!Items = 1..Len(entries) /\ Len(entries) \in Nat /\ Cardinality(P!Items) = Len(entries)
  BY FiniteItems DEF PlayerInv
<1>3. Finished = P!Items
  BY DEF Finished, P!Over
<1>4. CASE P!Sequential \/ P!SessionAware
  <2>1. P!Report = results
    BY <1>4 DEF P!Report
  <2>2. QED
    BY <1>1, <1>2, <1>3, <2>1
<1>5. CASE ~(P!Sequential \/ P!SessionAware)
  <2> DEFINE k(i) == CHOOSE l \in DOMAIN results : results[l].item = i
  <2>1. P!Report = [i \in P!Items |-> results[k(i)]]
    BY <1>5 DEF P!Report
  <2>2. \A i \in P!Items : k(i) \in DOMAIN results /\ results[k(i)].item = i
    BY <1>1 DEF Listed
  <2> HIDE DEF k
  <2>3. \A l \in DOMAIN results : results[l] \in Outcome
    BY <1>1, LenProperties
  <2>4. P!Report \in [1..Len(entries) -> Outcome] /\ \A i \in P!Items : P!Report[i].item = i
    BY <1>2, <2>1, <2>2, <2>3
  <2>5. P!Report \in Seq(Outcome)
    BY <1>2, <2>4, SeqDef
  <2>6. DOMAIN P!Report = P!Items
    BY <2>1
  <2>7. Len(P!Report) = Len(entries)
    BY <1>2, <2>4, <2>5, LenProperties
  <2>8. Distinct(P!Report) /\ \A i \in P!Items : Listed(i, P!Report)
    BY <2>4, <2>6 DEF Distinct, Listed
  <2>9. QED
    BY <2>5, <2>7, <2>8
<1>6. QED
  BY <1>4, <1>5

(* A new player, whatever it is given.                                     *)
LEMMA Loaded ==
    ASSUME NEW n \in Nat, NEW es, es \in [1..n -> {es[i] : i \in 1..n}],
           NEW m \in {"live", "verbatim"}, NEW o \in BOOLEAN, NEW w \in Nat, P!Load(es, m, o, w),
           source' \in {"none", "recording", "trace"},
           source' = "recording" => DOMAIN file' = 1..n
    PROVE  PlayerInv'
<1>1. /\ historyMode' = m /\ openLoop' = o /\ window' = w /\ entries' = es
      /\ task' = [i \in 1..n |-> "queued"] /\ free' = P!Slots(m, w, es)
      /\ results' = <<>> /\ failures' = 0 /\ saved' = P!NotSaved /\ exit' = P!Running
  BY DEF P!Load
<1>2. P!Items' = 1..n /\ Capacity' = P!Slots(m, w, es)
  BY <1>1 DEF P!Items, Capacity, P!Slots
<1>3. free' \in Nat
  BY <1>1, RecordReplayAssumption DEF P!Slots
<1>4. entries' \in Seq({entries'[i] : i \in P!Items'})
  BY <1>1, <1>2, SeqDef
<1>5. \A i \in P!Items' : task'[i] = "queued"
  BY <1>1, <1>2
<1>6. results' \in Seq(Outcome')
  BY <1>1
<1>7. PlayerType'
  BY <1>1, <1>2, <1>3, <1>4, <1>6, RecordReplayAssumption DEF PlayerType, P!Running
<1>8. Finished' = {} /\ Posting' = {} /\ ActiveSessions' = {}
  <2>1. Finished' = {} /\ Posting' = {}
    BY <1>5 DEF Finished, Posting
  <2>2. ActiveSessions' = {}
    BY <1>5 DEF ActiveSessions, P!Active
  <2>3. QED
    BY <2>1, <2>2
<1>9. ResultInv'
  <2>1. DOMAIN results' = {} /\ Len(results') = 0
    BY <1>1
  <2>2. Distinct(results') /\ Len(results') = Cardinality(Finished')
    BY <1>8, <2>1, FS_EmptySet DEF Distinct
  <2>3. \A i \in P!Items' : task'[i] = "over" <=> Listed(i, results')
    BY <1>5, <2>1 DEF Listed
  <2>4. QED
    BY <1>1, <1>2, <2>2, <2>3 DEF ResultInv, Distinct, Listed
<1>10. OrderInv'
  BY <1>5 DEF OrderInv
<1>11. SlotInv'
  BY <1>1, <1>2, <1>3, <1>8, FS_EmptySet DEF SlotInv
<1>12. QED
  BY <1>7, <1>9, <1>10, <1>11 DEF PlayerInv

(* A step that leaves the requests, and at most ends the command.          *)
LEMMA SamePlayer ==
    ASSUME PlayerInv, UNCHANGED <<historyMode, openLoop, window, entries, task, free>>,
           UNCHANGED <<results, failures, saved, source>>,
           exit' = exit \/ exit' = 3, source = "none" \/ file' = file
    PROVE  PlayerInv'
<1>1. /\ historyMode' = historyMode /\ openLoop' = openLoop /\ window' = window
      /\ entries' = entries /\ task' = task /\ free' = free /\ results' = results
      /\ failures' = failures /\ saved' = saved /\ source' = source
  OBVIOUS
<1>2. /\ P!Items' = P!Items /\ P!Sessions' = P!Sessions /\ Outcome' = Outcome
      /\ P!SessionAware' <=> P!SessionAware
      /\ P!Sequential' <=> P!Sequential
      /\ \A j \in P!Items : P!Session(j)' = P!Session(j)
      /\ Capacity' = Capacity
  BY <1>1, SameSessions
<1>3. Finished' = Finished /\ Posting' = Posting /\ ActiveSessions' = ActiveSessions
  BY <1>1 DEF Finished, Posting, ActiveSessions, P!Sessions, P!Active, P!Over, P!Fellows,
              P!Session, P!Items
<1>4. exit' \in {P!Running, 0, 2, 3} /\ (exit' = P!Running => exit = P!Running)
  BY DEF PlayerInv, PlayerType, P!Running
<1>5. ResultInv'
  BY <1>1, <1>2, <1>3, <1>4 DEF PlayerInv, ResultInv, Distinct, Listed
<1>6. PlayerType'
  BY <1>1, <1>2, <1>4 DEF PlayerInv, PlayerType
<1>7. OrderInv' /\ SlotInv'
  BY <1>1, <1>2, <1>3 DEF PlayerInv, OrderInv, SlotInv
<1>8. QED
  BY <1>5, <1>6, <1>7 DEF PlayerInv

(* Whatever the player does.                                               *)
LEMMA NextPlayer ==
    ASSUME PlayerInv, P!Next, file' = file, source' = source
    PROVE  PlayerInv'
<1>1. CASE \E i \in P!Items : P!Send(i)
  BY <1>1, NextSend
<1>2. CASE \E i \in P!Items : P!Answered(i)
  BY <1>2, NextAnswer DEF P!Answered
<1>3. CASE P!Save
  <2>1. /\ exit = P!Running /\ P!Over(P!Items) /\ saved' = P!Report /\ exit' \in {0, 2}
        /\ historyMode' = historyMode /\ openLoop' = openLoop /\ window' = window
        /\ entries' = entries /\ task' = task /\ free' = free /\ results' = results
        /\ failures' = failures
    BY <1>3 DEF P!Save
  <2>2. /\ saved' \in Seq(Outcome) /\ Len(saved') = Len(entries)
        /\ Distinct(saved') /\ \A i \in P!Items : Listed(i, saved')
    BY <2>1, ReportIsWhole
  <2>3. /\ P!Items' = P!Items /\ P!Sessions' = P!Sessions /\ Outcome' = Outcome
        /\ P!SessionAware' <=> P!SessionAware
        /\ P!Sequential' <=> P!Sequential
        /\ \A j \in P!Items : P!Session(j)' = P!Session(j)
        /\ Capacity' = Capacity
    BY <2>1, SameSessions
  <2>4. Finished' = Finished /\ Posting' = Posting /\ ActiveSessions' = ActiveSessions
    BY <2>1 DEF Finished, Posting, ActiveSessions, P!Sessions, P!Active, P!Over, P!Fellows,
                P!Session, P!Items
  <2>5. exit' # P!Running
    BY <2>1 DEF P!Running
  <2>6. ResultInv'
    BY <2>1, <2>2, <2>3, <2>4, <2>5 DEF PlayerInv, ResultInv, Distinct, Listed
  <2>7. PlayerType' /\ OrderInv' /\ SlotInv'
    BY <2>1, <2>3, <2>4 DEF PlayerInv, PlayerType, OrderInv, SlotInv
  <2>8. QED
    BY <2>6, <2>7 DEF PlayerInv
<1>4. CASE P!Interrupt
  BY <1>4, SamePlayer DEF P!Interrupt
<1>5. QED
  BY <1>1, <1>2, <1>3, <1>4 DEF P!Next, P!Step

-----------------------------------------------------------------------------
(* The recording and the player together.                                  *)
IInv == RecorderInv /\ PlayerInv

(* At the start there is a proxy without entries and an empty player.      *)
LEMMA InitInv == Init => IInv
<1> SUFFICES ASSUME Init PROVE IInv
  OBVIOUS
<1>1. /\ turn = [a \in Agents |-> 1] /\ awaited = {} /\ up = TRUE /\ run = 1 /\ index = 0
      /\ requests = {} /\ file = <<>> /\ answers = {} /\ delivered = {} /\ faults = 0
  BY DEF Init, R!Init
<1>2. /\ historyMode = "live" /\ openLoop = FALSE /\ window = 1 /\ entries = <<>>
      /\ task = <<>> /\ free = Concurrency /\ results = <<>> /\ failures = 0
      /\ saved = P!NotSaved /\ exit = P!Running /\ source = "none"
  BY DEF Init
<1>3. RecorderInv
  <2>1. Filed = {} /\ DOMAIN file = {} /\ Len(file) = 0
    BY <1>1 DEF Filed
  <2>2. IsFiniteSet(requests) /\ Cardinality(requests) = 0
    BY <1>1, FS_EmptySet
  <2>3. RecorderType
    BY <1>1, <2>2, RecordReplayAssumption DEF RecorderType, R!Runs
  <2>4. NumberInv /\ OnceInv /\ TurnInv
    BY <1>1, <2>1, <2>2 DEF NumberInv, OnceInv, TurnInv
  <2>5. QED
    BY <2>3, <2>4 DEF RecorderInv
<1>4. PlayerInv
  <2>1. P!Items = {} /\ Capacity = Concurrency /\ ~P!SessionAware
    BY <1>2 DEF P!Items, Capacity, P!Slots, P!SessionAware
  <2>2. Finished = {} /\ Posting = {}
    BY <2>1 DEF Finished, Posting
  <2>3. entries \in Seq({entries[i] : i \in P!Items}) /\ results \in Seq(Outcome)
    BY <1>2
  <2>4. task \in [P!Items -> {"queued", "posting", "over"}]
    BY <1>2, <2>1
  <2>5. PlayerType
    <3>1. historyMode \in {"live", "verbatim"} /\ openLoop \in BOOLEAN
      BY <1>2
    <3>2. window \in Nat /\ free \in Nat /\ failures \in 0..MaxFailures
      <4>1. Concurrency \in Nat /\ MaxFailures \in Nat
        BY RecordReplayAssumption
      <4>2. 0 \in 0..MaxFailures
        BY <4>1
      <4>3. QED
        BY <1>2, <4>1, <4>2
    <3>3. exit \in {P!Running, 0, 2, 3} /\ source \in {"none", "recording", "trace"}
      BY <1>2
    <3>4. QED
      BY <2>3, <2>4, <3>1, <3>2, <3>3 DEF PlayerType
  <2>6. DOMAIN results = {} /\ Len(results) = 0
    BY <1>2
  <2>7. ResultInv
    BY <1>2, <2>1, <2>2, <2>6, FS_EmptySet DEF ResultInv, Distinct, Listed
  <2>8. OrderInv /\ SlotInv
    BY <1>2, <2>1, <2>2, FS_EmptySet, RecordReplayAssumption DEF OrderInv, SlotInv
  <2>9. QED
    BY <2>5, <2>7, <2>8 DEF PlayerInv
<1>5. QED
  BY <1>3, <1>4 DEF IInv

(* The player does not write what the recorder's invariant is about.       *)
LEMMA SameRecorder == ASSUME RecorderInv, UNCHANGED recorderVars PROVE RecorderInv'
<1>1. /\ turn' = turn /\ awaited' = awaited /\ up' = up /\ run' = run /\ index' = index
      /\ requests' = requests /\ file' = file /\ answers' = answers /\ delivered' = delivered
      /\ faults' = faults
  BY DEF recorderVars
<1>2. Filed' = Filed
  BY <1>1 DEF Filed
<1>3. QED
  BY <1>1, <1>2 DEF RecorderInv, RecorderType, NumberInv, OnceInv, TurnInv

(* Every step, of the recorder, of a command, and of the player.           *)
LEMMA NextInv == ASSUME IInv, [Next]_vars PROVE IInv'
<1>1. CASE Record
  <2>1. RecorderInv'
    BY <1>1, NextRecorder DEF IInv, Record
  <2>2. PlayerInv'
    BY <1>1, SamePlayer DEF IInv, Record, playerVars
  <2>3. QED
    BY <2>1, <2>2 DEF IInv
<1>2. CASE Replay
  <2>1. PICK m \in {"live", "verbatim"}, o \in BOOLEAN : P!Load(Recorded, m, o, 1)
    BY <1>2 DEF Replay
  <2>2. RecorderInv' /\ file' = file /\ source' = "recording"
    BY <1>2, SameRecorder DEF IInv, Replay, recorderVars
  <2>3. DOMAIN file = 1..Len(file) /\ Len(file) \in Nat
    BY DEF IInv, RecorderInv, RecorderType
  <2>4. Recorded \in [1..Len(file) -> {Recorded[i] : i \in 1..Len(file)}]
    BY <2>3 DEF Recorded
  <2>5. PlayerInv'
    BY <2>1, <2>2, <2>3, <2>4, Loaded
  <2>6. QED
    BY <2>2, <2>5 DEF IInv
<1>3. CASE ReplayTrace
  <2>1. PICK t \in Traces, o \in BOOLEAN : P!Load(Fitting(t), "verbatim", o, ActiveUsers)
    BY <1>3 DEF ReplayTrace
  <2>2. RecorderInv' /\ file' = file /\ source' = "trace"
    BY <1>3, SameRecorder DEF IInv, ReplayTrace, recorderVars
  <2> DEFINE n == Cardinality({i \in DOMAIN t : t[i].fits})
  <2>3. n \in Nat
    BY RecordReplayAssumption, FS_Subset, FS_CardinalityType
  <2>4. Fitting(t) \in [1..n -> {Fitting(t)[i] : i \in 1..n}]
    BY DEF Fitting
  <2> HIDE DEF n
  <2>5. PlayerInv'
    BY <2>1, <2>2, <2>3, <2>4, Loaded, RecordReplayAssumption
  <2>6. QED
    BY <2>2, <2>5 DEF IInv
<1>4. CASE Play
  <2>1. RecorderInv' /\ file' = file /\ source' = source /\ P!Next
    BY <1>4, SameRecorder DEF IInv, Play, recorderVars
  <2>2. QED
    BY <2>1, NextPlayer DEF IInv
<1>5. CASE UNCHANGED vars
  BY <1>5, SameRecorder, SamePlayer DEF IInv, vars, recorderVars, playerVars
<1>6. QED
  BY <1>1, <1>2, <1>3, <1>4, <1>5 DEF Next, Over

(* The invariant holds in every state.                                     *)
THEOREM Invariance == Spec => []IInv
<1>1. IInv /\ [Next]_vars => IInv'
  BY NextInv
<1>2. QED
  BY InitInv, <1>1, PTL DEF Spec

-----------------------------------------------------------------------------
(* The variables have their types, the window never counts below zero or   *)
(* above its size, and a file of results is never longer than the run.     *)
THEOREM TypeCorrect == Spec => []TypeOK
<1>1. IInv => TypeOK
  <2> SUFFICES ASSUME IInv PROVE TypeOK
    OBVIOUS
  <2>1. R!TypeOK
    <3>1. \A i \in DOMAIN file : file[i] \in [request : R!Request, status : R!Statuses]
      <4> DEFINE E == [request : R!Request, status : R!Statuses]
      <4>1. file \in Seq(E)
        BY DEF IInv, RecorderInv, RecorderType
      <4> HIDE DEF E
      <4>2. \A i \in DOMAIN file : file[i] \in E
        BY <4>1, LenProperties
      <4>3. QED
        BY <4>2 DEF E
    <3>2. QED
      BY <3>1 DEF IInv, RecorderInv, RecorderType, R!TypeOK
  <2>2. free \in 0..Capacity
    <3>1. free \in Nat
      BY DEF IInv, PlayerInv, PlayerType
    <3>2. Cardinality(ActiveSessions) \in Nat /\ Cardinality(Posting) \in Nat
      BY FiniteItems DEF IInv, PlayerInv, Posting
    <3>3. \E n \in Nat : n + free = Capacity
      BY <3>2 DEF IInv, PlayerInv, SlotInv
    <3>4. QED
      BY <3>1, <3>3
  <2>3. \A k \in DOMAIN results : results[k] \in Outcome
    <3>1. results \in Seq(Outcome)
      BY DEF IInv, PlayerInv, PlayerType
    <3> HIDE DEF Outcome
    <3>2. QED
      BY <3>1, LenProperties
  <2>4. saved = P!NotSaved \/ Len(saved) <= Len(entries)
    <3>1. Len(entries) \in Nat
      BY FiniteItems DEF IInv, PlayerInv
    <3>2. QED
      BY <3>1 DEF IInv, PlayerInv, ResultInv
  <2>5. P!TypeOK
    BY <2>2, <2>3, <2>4 DEF IInv, PlayerInv, PlayerType, P!TypeOK, Outcome, Capacity
  <2>6. QED
    BY <2>1, <2>5 DEF IInv, PlayerInv, PlayerType, TypeOK
<1>2. QED
  BY <1>1, Invariance, PTL

(* For every trace, however its sessions are interleaved and its requests  *)
(* fail: a turn is sent after the answer to the session's turn before, the *)
(* sessions under way never exceed the window, and no slot of it is lost.  *)
THEOREM SessionsStayInOrder == Spec => []SessionsKeepOrder
<1>1. IInv => SessionsKeepOrder
  BY SameCount DEF IInv, PlayerInv, OrderInv, SlotInv, SessionsKeepOrder, P!SessionsKeepOrder,
                   ActiveSessions, Capacity
<1>2. QED
  BY <1>1, Invariance, PTL

(* Every answer an agent got is recorded once and in order, over errors,   *)
(* restarts and agents that gave up, and a replay that wrote its results   *)
(* has exactly one for it, however the replay was scheduled.               *)
THEOREM AnswersAreReplayed == Spec => []AnsweredIsReplayed
<1>1. IInv => AnsweredIsReplayed
  <2> SUFFICES ASSUME IInv PROVE AnsweredIsReplayed
    OBVIOUS
  <2>1. R!DeliveredIsRecorded
    BY RecordingIsTrue DEF IInv
  <2>2. ASSUME source = "recording", saved # P!NotSaved, NEW r \in delivered
        PROVE  Cardinality({k \in DOMAIN saved : file[saved[k].item].request = r}) = 1
    <3>1. /\ P!Items = DOMAIN file /\ saved \in Seq(Outcome) /\ Distinct(saved)
          /\ \A i \in P!Items : Listed(i, saved)
      BY <2>2 DEF IInv, PlayerInv, ResultInv
    <3>2. PICK i \in DOMAIN file : file[i].request = r
      BY DEF IInv, RecorderInv, OnceInv, Filed
    <3>3. \A j \in DOMAIN file : file[j].request = r => j = i
      BY <3>2 DEF IInv, RecorderInv, OnceInv
    <3>4. PICK k \in DOMAIN saved : saved[k].item = i
      BY <3>1 DEF Listed
    <3>5. \A l \in DOMAIN saved : saved[l].item \in DOMAIN file
      <4>1. \A o \in Outcome : o.item \in P!Items
        BY DEF Outcome
      <4> HIDE DEF Outcome
      <4>2. \A l \in DOMAIN saved : saved[l] \in Outcome
        BY <3>1, LenProperties
      <4>3. QED
        BY <3>1, <4>1, <4>2
    <3>6. {l \in DOMAIN saved : file[saved[l].item].request = r} = {k}
      BY <3>1, <3>2, <3>3, <3>4, <3>5 DEF Distinct
    <3>7. QED
      BY <3>6, FS_Singleton
  <2>3. QED
    BY <2>1, <2>2 DEF AnsweredIsReplayed
<1>2. QED
  BY <1>1, Invariance, PTL
=============================================================================
