---------------------------- MODULE BackgroundProofs ----------------------------
(***************************************************************************)
(* Machine-checked proofs about what the agent does with no user waiting,  *)
(* in the module that TLC runs: the shell commands (H, ShellTasks), the    *)
(* subagents (Subagents), the tasks of peer agents (Q, Peers) and the      *)
(* proactive loop (P, Proactive), for any number of commands, jobs, tasks, *)
(* ticks, items and hours.                                                 *)
(***************************************************************************)
EXTENDS MCBackground, FiniteSetTheorems, SequenceTheorems, TLAPS

-----------------------------------------------------------------------------
(* The subagents.  A job in flight is entered in jobs, whose number is     *)
(* bounded; what is announced before a job is over is the cancellations    *)
(* it has had, and whoever cancels it leaves a mark that it unwinds by.    *)

InFlight == {"created", "working", "stopping", "stillborn"}

JobInv(j) ==
    /\ sub[j] \in InFlight => j \in jobs
    /\ sub[j] = "none" => j \notin jobs
    /\ sub[j] \in {"none", "created", "working"} => announced[j] = <<>> /\ cancels[j] = 0
    /\ sub[j] \in {"stopping", "stillborn"} =>
         /\ j \in saidBefore /\ Len(announced[j]) = cancels[j] /\ cancels[j] >= 1
         /\ \A a \in DOMAIN announced[j] : announced[j][a] = "cancelled"
    /\ cancels[j] <= 1 => Len(announced[j]) <= 1
    /\ \A a, b \in DOMAIN announced[j] : announced[j][a] = announced[j][b]

SubInv ==
    /\ SubagentsTypeOK
    /\ IsFiniteSet(jobs) /\ Cardinality(jobs) <= Limit
    /\ \A j \in Subs : JobInv(j)

LEMMA SubagentsStart == Init => SubInv
<1> SUFFICES ASSUME Init PROVE SubInv
  OBVIOUS
<1>1. SubagentsTypeOK
  BY SubagentsAssumption DEF Init, SubagentsTypeOK
<1>2. IsFiniteSet(jobs) /\ Cardinality(jobs) <= Limit
  BY SubagentsAssumption, FS_EmptySet DEF Init
<1>3. \A j \in Subs : JobInv(j)
  BY DEF Init, JobInv, InFlight
<1> QED
  BY <1>1, <1>2, <1>3 DEF SubInv

LEMMA SubagentsStep == ASSUME SubInv, Next PROVE SubInv'
<1> USE SubagentsAssumption
<1>1. PICK j \in Subs : Works(j) \/ Spawn(j) \/ Cancel(j)
  BY DEF Next
<1>0. SubagentsTypeOK /\ IsFiniteSet(jobs) /\ Cardinality(jobs) <= Limit /\ Cardinality(jobs) \in Nat
  BY FS_CardinalityType DEF SubInv
<1>9. \A k \in Subs : JobInv(k)
  BY DEF SubInv
<1>2. CASE Spawn(j)
  <2>1. j \notin jobs
    BY <1>2, <1>9 DEF Spawn, JobInv
  <2>2. IsFiniteSet(jobs') /\ Cardinality(jobs') <= Limit
    BY <1>2, <2>1, <1>0, FS_AddElement DEF Spawn, Room
  <2>3. SubagentsTypeOK'
    BY <1>2, <1>0 DEF Spawn, SubagentsTypeOK
  <2>4. ASSUME NEW k \in Subs PROVE JobInv(k)'
    <3>1. CASE k = j
      BY <3>1, <1>2, <1>0, <1>9 DEF Spawn, SubagentsTypeOK, JobInv, InFlight
    <3>2. CASE k # j
      <4>1. sub'[k] = sub[k] /\ (k \in jobs' <=> k \in jobs)
        BY <3>2, <1>2, <1>0 DEF Spawn, SubagentsTypeOK
      <4> QED
        BY <4>1, <1>2, <1>9 DEF Spawn, JobInv
    <3> QED
      BY <3>1, <3>2
  <2> QED
    BY <2>2, <2>3, <2>4 DEF SubInv
<1>3. CASE Cancel(j)
  <2>1. sub[j] \in InFlight
    BY <1>3, <1>0, <1>9 DEF Cancel, SubagentsTypeOK, JobInv, InFlight
  <2>2. sub'[j] \in {"stopping", "stillborn"} /\ sub'[j] \in InFlight
    BY <2>1, <1>3, <1>0 DEF Cancel, SubagentsTypeOK, InFlight
  <2>3. announced[j] \in Seq(Ends \union {"cancelled"}) /\ "cancelled" \in Ends \union {"cancelled"}
        /\ announced'[j] = Append(announced[j], "cancelled")
        /\ cancels'[j] = cancels[j] + 1 /\ cancels[j] \in Nat
    BY <1>3, <1>0 DEF Cancel, SubagentsTypeOK, Say
  <2>4. Len(announced[j]) = cancels[j] /\ \A a \in DOMAIN announced[j] : announced[j][a] = "cancelled"
    BY <2>1, <1>9 DEF JobInv, InFlight
  <2>5. /\ announced'[j] \in Seq(Ends \union {"cancelled"})
        /\ Len(announced'[j]) = cancels'[j] /\ cancels'[j] >= 1
        /\ \A a \in DOMAIN announced'[j] : announced'[j][a] = "cancelled"
    BY <2>3, <2>4
  <2>6. SubagentsTypeOK'
    <3>1. sub' \in [Subs -> {"none", "created", "working", "stopping", "stillborn", "done"}]
      BY <1>3, <1>0, <2>2 DEF Cancel, SubagentsTypeOK
    <3>2. announced' \in [Subs -> Seq(Ends \union {"cancelled"})]
      BY <1>3, <1>0, <2>3, <2>5 DEF Cancel, SubagentsTypeOK, Say
    <3>3. jobs' \subseteq Subs /\ saidBefore' \subseteq jobs' /\ cancels' \in [Subs -> 0..MaxCancels]
      BY <1>3, <1>0 DEF Cancel, SubagentsTypeOK
    <3> QED
      BY <3>1, <3>2, <3>3 DEF SubagentsTypeOK
  <2>7. ASSUME NEW k \in Subs PROVE JobInv(k)'
    <3>1. CASE k = j
      <4>1. j \in jobs' /\ j \in saidBefore'
        BY <1>3 DEF Cancel
      <4>2. sub'[j] \notin {"none", "created", "working"}
        BY <2>2
      <4>3. cancels'[j] <= 1 => Len(announced'[j]) <= 1
        BY <2>3, <2>5
      <4> QED
        BY <3>1, <4>1, <4>2, <4>3, <2>2, <2>5 DEF JobInv
    <3>2. CASE k # j
      <4>1. /\ sub'[k] = sub[k] /\ jobs' = jobs /\ (k \in saidBefore' <=> k \in saidBefore)
            /\ announced'[k] = announced[k] /\ cancels'[k] = cancels[k]
        BY <3>2, <1>3, <1>0 DEF Cancel, SubagentsTypeOK, Say
      <4> QED
        BY <4>1, <1>9 DEF JobInv
    <3> QED
      BY <3>1, <3>2
  <2> QED
    BY <2>6, <2>7, <1>3, <1>0 DEF SubInv, Cancel
<1>4. CASE Begin(j)
  <2>1. SubagentsTypeOK'
    BY <1>4, <1>0 DEF Begin, SubagentsTypeOK
  <2>2. ASSUME NEW k \in Subs PROVE JobInv(k)'
    BY <1>4, <1>0, <1>9 DEF Begin, SubagentsTypeOK, JobInv, InFlight
  <2> QED
    BY <2>1, <2>2, <1>4, <1>0 DEF SubInv, Begin
<1>5. ASSUME NEW what \in Ends, Finish(j, what) PROVE SubInv'
  <2>1. announced[j] = <<>> /\ cancels[j] = 0
    BY <1>5, <1>9 DEF Finish, JobInv
  <2>2. /\ announced'[j] = <<what>> /\ what \in Ends \union {"cancelled"}
        /\ cancels' = cancels /\ sub'[j] = "done"
    BY <1>5, <1>0, <2>1 DEF Finish, SubagentsTypeOK, Say
  <2>3. SubagentsTypeOK'
    BY <1>5, <1>0, <2>2 DEF Finish, SubagentsTypeOK, Say
  <2>4. ASSUME NEW k \in Subs PROVE JobInv(k)'
    <3>1. CASE k = j
      BY <3>1, <2>2 DEF JobInv, InFlight
    <3>2. CASE k # j
      <4>1. /\ sub'[k] = sub[k] /\ jobs' = jobs /\ saidBefore' = saidBefore
            /\ announced'[k] = announced[k] /\ cancels' = cancels
        BY <3>2, <1>5, <1>0 DEF Finish, SubagentsTypeOK, Say
      <4> QED
        BY <4>1, <1>9 DEF JobInv
    <3> QED
      BY <3>1, <3>2
  <2> QED
    BY <2>3, <2>4, <1>5, <1>0 DEF SubInv, Finish
<1>6. CASE Unwind(j)
  <2>1. announced' = announced /\ j \in saidBefore
    BY <1>6, <1>9 DEF Unwind, MustSay, JobInv
  <2>2. SubagentsTypeOK'
    BY <1>6, <1>0, <2>1 DEF Unwind, SubagentsTypeOK
  <2>3. ASSUME NEW k \in Subs PROVE JobInv(k)'
    <3>1. CASE k = j
      <4>1. sub'[j] = "done"
        BY <1>6, <1>0 DEF Unwind, SubagentsTypeOK
      <4> QED
        BY <3>1, <4>1, <2>1, <1>6, <1>9 DEF Unwind, JobInv, InFlight
    <3>2. CASE k # j
      <4>1. sub'[k] = sub[k]
        BY <3>2, <1>6, <1>0 DEF Unwind, SubagentsTypeOK
      <4> QED
        BY <4>1, <2>1, <1>6, <1>9 DEF Unwind, JobInv
    <3> QED
      BY <3>1, <3>2
  <2> QED
    BY <2>2, <2>3, <1>6, <1>0 DEF SubInv, Unwind
<1>7. CASE Forget(j)
  <2>1. SubagentsTypeOK'
    BY <1>7, <1>0 DEF Forget, SubagentsTypeOK
  <2>2. IsFiniteSet(jobs') /\ Cardinality(jobs') <= Limit
    <3>1. jobs' \subseteq jobs
      BY <1>7 DEF Forget
    <3>2. IsFiniteSet(jobs') /\ Cardinality(jobs') <= Cardinality(jobs)
      BY <3>1, <1>0, FS_Subset
    <3>3. Cardinality(jobs') \in Nat
      BY <3>2, FS_CardinalityType
    <3> QED
      BY <3>2, <3>3, <1>0
  <2>3. ASSUME NEW k \in Subs PROVE JobInv(k)'
    <3>1. CASE k = j
      BY <3>1, <1>7, <1>9 DEF Forget, JobInv, InFlight
    <3>2. CASE k # j
      BY <3>2, <1>7, <1>9 DEF Forget, JobInv
    <3> QED
      BY <3>1, <3>2
  <2> QED
    BY <2>1, <2>2, <2>3 DEF SubInv
<1> QED
  BY <1>1, <1>2, <1>3, <1>4, <1>5, <1>6, <1>7 DEF Works

LEMMA SubagentsHold == SubInv => SubagentsTypeOK /\ LimitHolds /\ EndSaidOnce
<1> SUFFICES ASSUME SubInv PROVE SubagentsTypeOK /\ LimitHolds /\ EndSaidOnce
  OBVIOUS
<1> USE SubagentsAssumption
<1> DEFINE going == {j \in Subs : sub[j] \notin {"none", "done"}}
<1>1. going \subseteq jobs
  BY DEF SubInv, SubagentsTypeOK, JobInv, InFlight
<1>2. Cardinality(going) <= Cardinality(jobs) /\ Cardinality(going) \in Nat /\ Cardinality(jobs) \in Nat
  BY <1>1, FS_Subset, FS_CardinalityType DEF SubInv
<1>3. LimitHolds
  BY <1>2 DEF LimitHolds, SubInv
<1>4. EndSaidOnce
  BY DEF EndSaidOnce, SubInv, JobInv
<1> QED
  BY <1>3, <1>4 DEF SubInv

-----------------------------------------------------------------------------
(* The tasks of peer agents.  What the poller looks at is registered and   *)
(* not yet told of, each once; who is told of is no longer registered.     *)

\* No task twice in a list.
Distinct(s) == \A a, b \in DOMAIN s : s[a] = s[b] => a = b

Listed(s) == {s[i] : i \in DOMAIN s}

ToldPeer(c) ==
    /\ c \in Listed(pending) => call[c] = "registered" /\ reports[c] = <<>>
    /\ call[c] = "registered" /\ reports[c] = <<>> => c \in Listed(pending)
    /\ Len(reports[c]) <= 1
    /\ reports[c] # <<>> => call[c] = "registered"
    /\ reports[c] = <<"completed">> => remote[c] = "completed"

PeerTypes ==
    /\ Q!PeersTypeOK
    /\ pending \in Seq(Delegated) /\ round \in Seq(Delegated)
    /\ reports \in [Delegated -> Seq({"completed", "failed"})]
    /\ remote \in [Delegated -> {"none", "working", "completed", "failed"}]
    /\ host \in [Delegated -> Nat]

PeerInv ==
    /\ PeerTypes
    /\ Distinct(pending) /\ Distinct(round) /\ Listed(round) \subseteq Listed(pending)
    /\ \A c \in Delegated : ToldPeer(c)

\* The list without the one place.
LEMMA RemovedOne ==
    ASSUME NEW S, NEW s \in Seq(S), Distinct(s), NEW at \in DOMAIN s
    PROVE  /\ Q!RemoveAt(s, at) \in Seq(S) /\ Distinct(Q!RemoveAt(s, at))
           /\ Listed(Q!RemoveAt(s, at)) = Listed(s) \ {s[at]}
<1> DEFINE u == SubSeq(s, 1, at-1)
           v == SubSeq(s, at+1, Len(s))
           t == Q!RemoveAt(s, at)
<1>0. Len(s) \in Nat /\ DOMAIN s = 1..Len(s) /\ at \in 1..Len(s) /\ at \in Nat
      /\ \A i \in 1..Len(s) : s[i] \in S
  OBVIOUS
<1>1. u \in Seq(S) /\ Len(u) = at - 1 /\ \A i \in 1..at-1 : u[i] = s[i]
  BY <1>0, SubSeqProperties
<1>2. v \in Seq(S) /\ Len(v) = Len(s) - at /\ \A i \in 1..Len(s)-at : v[i] = s[at+i]
  BY <1>0, SubSeqProperties
<1>3. t = u \o v
  BY DEF Q!RemoveAt
<1> HIDE DEF u, v, t
<1>4. t \in Seq(S) /\ Len(t) = Len(u) + Len(v)
      /\ \A i \in 1 .. Len(u) + Len(v) : t[i] = IF i <= Len(u) THEN u[i] ELSE v[i - Len(u)]
  BY <1>1, <1>2, <1>3, ConcatProperties
<1>5. Len(t) = Len(s) - 1 /\ DOMAIN t = 1..Len(s)-1
  BY <1>0, <1>1, <1>2, <1>4
<1>6. ASSUME NEW i \in 1..Len(s)-1 PROVE t[i] = IF i < at THEN s[i] ELSE s[i+1]
  <2>1. CASE i < at
    BY <2>1, <1>0, <1>1, <1>2, <1>4
  <2>2. CASE i >= at
    <3>1. t[i] = v[i - (at-1)] /\ i - (at-1) \in 1..Len(s)-at
      BY <2>2, <1>0, <1>1, <1>2, <1>4
    <3>2. v[i - (at-1)] = s[at + (i - (at-1))] /\ at + (i - (at-1)) = i+1
      BY <3>1, <1>0, <1>2
    <3> QED
      BY <3>1, <3>2, <2>2, <1>0
  <2> QED
    BY <2>1, <2>2, <1>0
<1>7. Distinct(t)
  BY <1>0, <1>5, <1>6 DEF Distinct
<1>8. Listed(t) = Listed(s) \ {s[at]}
  <2>1. ASSUME NEW x \in Listed(t) PROVE x \in Listed(s) \ {s[at]}
    BY <1>0, <1>5, <1>6 DEF Distinct, Listed
  <2>2. ASSUME NEW x \in Listed(s) \ {s[at]} PROVE x \in Listed(t)
    <3>1. PICK i \in 1..Len(s) : s[i] = x
      BY <1>0 DEF Listed
    <3>2. i # at
      BY <3>1
    <3>3. CASE i < at
      BY <3>1, <3>3, <1>0, <1>5, <1>6 DEF Listed
    <3>4. CASE i > at
      <4>1. i - 1 \in 1..Len(s)-1 /\ ~(i - 1 < at) /\ (i - 1) + 1 = i
        BY <3>4, <1>0
      <4>2. t[i - 1] = x
        BY <4>1, <3>1, <1>6
      <4> QED
        BY <4>1, <4>2, <1>5 DEF Listed
    <3> QED
      BY <3>2, <3>3, <3>4, <1>0
  <2> QED
    BY <2>1, <2>2
<1> QED
  BY <1>4, <1>7, <1>8 DEF t

LEMMA TailListed ==
    ASSUME NEW S, NEW s \in Seq(S), Distinct(s), s # <<>>
    PROVE  /\ Tail(s) \in Seq(S) /\ Distinct(Tail(s)) /\ Head(s) \in Listed(s)
           /\ Listed(Tail(s)) = Listed(s) \ {Head(s)}
<1>0. Len(s) \in Nat /\ Len(s) >= 1 /\ DOMAIN s = 1..Len(s) /\ Head(s) = s[1]
  OBVIOUS
<1>1. Tail(s) \in Seq(S) /\ DOMAIN Tail(s) = 1..Len(s)-1
      /\ \A i \in 1..Len(s)-1 : Tail(s)[i] = s[i+1]
  OBVIOUS
<1>2. Distinct(Tail(s))
  BY <1>0, <1>1 DEF Distinct
<1>3. ASSUME NEW x \in Listed(Tail(s)) PROVE x \in Listed(s) \ {s[1]}
  BY <1>0, <1>1 DEF Listed, Distinct
<1>4. ASSUME NEW x \in Listed(s) \ {s[1]} PROVE x \in Listed(Tail(s))
  <2>1. PICK i \in 1..Len(s) : s[i] = x
    BY <1>0 DEF Listed
  <2>2. i - 1 \in 1..Len(s)-1 /\ (i - 1) + 1 = i
    BY <2>1, <1>0
  <2> QED
    BY <2>1, <2>2, <1>1 DEF Listed
<1> QED
  BY <1>0, <1>1, <1>2, <1>3, <1>4 DEF Listed

LEMMA AppendListed ==
    ASSUME NEW S, NEW s \in Seq(S), Distinct(s), NEW e \in S, e \notin Listed(s)
    PROVE  /\ Append(s, e) \in Seq(S) /\ Distinct(Append(s, e))
           /\ Listed(Append(s, e)) = Listed(s) \cup {e}
<1>0. Len(s) \in Nat /\ DOMAIN s = 1..Len(s) /\ DOMAIN Append(s, e) = 1..Len(s)+1
      /\ Append(s, e)[Len(s)+1] = e /\ \A i \in 1..Len(s) : Append(s, e)[i] = s[i]
  OBVIOUS
<1>1. Distinct(Append(s, e))
  BY <1>0 DEF Distinct, Listed
<1>2. ASSUME NEW x \in Listed(s) \cup {e} PROVE x \in Listed(Append(s, e))
  BY <1>0 DEF Listed
<1>3. ASSUME NEW x \in Listed(Append(s, e)) PROVE x \in Listed(s) \cup {e}
  BY <1>0 DEF Listed
<1> QED
  BY <1>1, <1>2, <1>3 DEF Listed

LEMMA PeersStart == Q!PeersInit => PeerInv
<1> SUFFICES ASSUME Q!PeersInit PROVE PeerInv
  OBVIOUS
<1>0. MaxSpawns \in Nat
  BY BackgroundAssumption DEF Q!PeersAssumption
<1>1. Cardinality({}) = 0 /\ Q!Cardinality({}) = 0
  <2>1. Q!Cardinality({}) = Cardinality({})
    BY DEF Q!Cardinality, Cardinality
  <2> QED
    BY <2>1, FS_EmptySet
<1>2. Q!PeersTypeOK
  BY <1>0, <1>1 DEF Q!PeersInit, Q!PeersTypeOK
<1>3. PeerTypes
  BY <1>2 DEF Q!PeersInit, PeerTypes
<1>4. Listed(pending) = {} /\ Listed(round) = {} /\ Distinct(pending) /\ Distinct(round)
  BY DEF Q!PeersInit, Listed, Distinct
<1>5. ASSUME NEW c \in Delegated PROVE ToldPeer(c)
  BY <1>4 DEF Q!PeersInit, ToldPeer
<1> QED
  BY <1>3, <1>4, <1>5 DEF PeerInv

\* What moves a call and nothing that is listed or reported.
LEMMA CallMoves ==
    ASSUME PeerInv, NEW c \in Delegated, NEW place \in {"lock", "check", "wait", "submit", "failed"},
           call[c] # "registered", Q!Goto(c, place),
           host' = host, remote' = remote, pending' = pending, round' = round, reports' = reports,
           spawned' \in 0..MaxSpawns, spawned <= spawned',
           living' \subseteq 1..spawned', proc' \subseteq 1..spawned', Q!Cardinality(proc') <= 1
    PROVE  PeerInv'
<1>0. PeerTypes /\ Q!PeersTypeOK /\ MaxSpawns \in Nat
  BY BackgroundAssumption DEF PeerInv, PeerTypes, Q!PeersAssumption
<1>1. /\ call' \in [Delegated -> {"none", "lock", "check", "wait", "submit", "registered", "failed"}]
      /\ \A d \in Delegated : call'[d] = "registered" <=> call[d] = "registered"
  BY <1>0 DEF Q!Goto, Q!PeersTypeOK
<1>2. \A d \in Delegated : host'[d] <= spawned'
  BY <1>0 DEF PeerTypes, Q!PeersTypeOK
<1>3. PeerTypes'
  BY <1>0, <1>1, <1>2 DEF PeerTypes, Q!PeersTypeOK
<1>4. ASSUME NEW d \in Delegated PROVE ToldPeer(d)'
  BY <1>1 DEF PeerInv, ToldPeer
<1> QED
  BY <1>3, <1>4 DEF PeerInv

LEMMA PeersStep == ASSUME PeerInv, Q!PeersNext PROVE PeerInv'
<1>0. PeerTypes /\ Q!PeersTypeOK /\ MaxSpawns \in Nat /\ spawned \in Nat
  BY BackgroundAssumption DEF PeerInv, PeerTypes, Q!PeersTypeOK, Q!PeersAssumption
<1>t. \A c \in Delegated : ToldPeer(c)
  BY DEF PeerInv
<1>n. /\ Q!Cardinality({}) <= 1
      /\ \A p : Q!Cardinality({p}) <= 1
  <2>1. \A T : Q!Cardinality(T) = Cardinality(T)
    BY DEF Q!Cardinality, Cardinality
  <2>2. Q!Cardinality({}) <= 1
    BY <2>1, FS_EmptySet
  <2>3. ASSUME NEW p PROVE Q!Cardinality({p}) <= 1
    <3> DEFINE T == {p}
    <3>1. Cardinality(T) = 1
      BY FS_Singleton
    <3>2. Q!Cardinality(T) = Cardinality(T)
      BY <2>1
    <3> QED
      BY <3>1, <3>2
  <2> QED
    BY <2>2, <2>3
<1>1. ASSUME NEW c \in Delegated, Q!Delegate(c) \/ Q!Enter(c) \/ Q!IsReady(c) \/ Q!SpawnFails(c)
                                  \/ Q!SubmitFails(c) \/ Q!Cancelled(c)
      PROVE  PeerInv'
  <2>1. PICK place \in {"lock", "check", "submit", "failed"} :
          call[c] # "registered" /\ Q!Goto(c, place) /\ UNCHANGED <<spawned, living, proc, Q!OfCall>>
    BY <1>1 DEF Q!Delegate, Q!Enter, Q!IsReady, Q!SpawnFails, Q!SubmitFails, Q!Cancelled, Q!InLock
  <2>2. /\ spawned' \in 0..MaxSpawns /\ spawned <= spawned' /\ living' \subseteq 1..spawned'
        /\ proc' \subseteq 1..spawned' /\ Q!Cardinality(proc') <= 1
    BY <2>1, <1>0 DEF Q!PeersTypeOK
  <2>3. /\ host' = host /\ remote' = remote /\ pending' = pending /\ round' = round
        /\ reports' = reports
    BY <2>1 DEF Q!OfCall
  <2>4. place \in {"lock", "check", "wait", "submit", "failed"}
    OBVIOUS
  <2> HIDE DEF PeerInv
  <2> QED
    BY <2>1, <2>2, <2>3, <2>4, CallMoves
<1>2. ASSUME NEW c \in Delegated, Q!Spawn(c) PROVE PeerInv'
  <2>1. /\ call[c] # "registered" /\ Q!Goto(c, "wait") /\ UNCHANGED Q!OfCall
        /\ spawned' = spawned + 1 /\ spawned' <= MaxSpawns
        /\ living' = living \cup {spawned'} /\ proc' = {spawned'}
    BY <1>2, <1>0 DEF Q!Spawn
  <2>2. living' \subseteq 1..spawned' /\ proc' \subseteq 1..spawned' /\ spawned' \in 0..MaxSpawns
        /\ spawned <= spawned'
    BY <2>1, <1>0 DEF Q!PeersTypeOK
  <2>3. Q!Cardinality(proc') <= 1
    BY <2>1, <1>n
  <2>4. /\ host' = host /\ remote' = remote /\ pending' = pending /\ round' = round
        /\ reports' = reports
    BY <2>1 DEF Q!OfCall
  <2> QED
    BY <2>1, <2>2, <2>3, <2>4, CallMoves
<1>3. ASSUME NEW c \in Delegated, Q!SpawnTimesOut(c) PROVE PeerInv'
  <2>1. /\ call[c] # "registered" /\ Q!Goto(c, "failed") /\ UNCHANGED <<spawned, Q!OfCall>>
        /\ living' \subseteq living /\ proc' = {}
    BY <1>3 DEF Q!SpawnTimesOut
  <2> QED
    BY <2>1, <1>0, <1>n, CallMoves DEF Q!OfCall, Q!PeersTypeOK
<1>4. ASSUME NEW c \in Delegated, Q!Submit(c) PROVE PeerInv'
  <2>1. call[c] = "submit" /\ c \notin Listed(pending) /\ reports[c] = <<>>
    BY <1>4, <1>t DEF Q!Submit, ToldPeer
  <2>2. PICK p \in living : host' = [host EXCEPT ![c] = p]
    BY <1>4 DEF Q!Submit
  <2>3. p \in Nat /\ p <= spawned
    BY <1>0 DEF Q!PeersTypeOK
  <2>4. pending' \in Seq(Delegated) /\ Distinct(pending') /\ Listed(pending') = Listed(pending) \cup {c}
    BY <1>4, <1>0, <2>1, AppendListed DEF PeerInv, PeerTypes, Q!Submit
  <2>5. /\ remote' = [remote EXCEPT ![c] = "working"] /\ call' = [call EXCEPT ![c] = "registered"]
        /\ UNCHANGED <<spawned, living, proc, round, ending, late, reports>>
    BY <1>4 DEF Q!Submit, Q!Goto
  <2>6. Q!PeersTypeOK'
    BY <1>0, <2>2, <2>3, <2>5 DEF PeerTypes, Q!PeersTypeOK
  <2>7. PeerTypes'
    BY <1>0, <2>2, <2>3, <2>4, <2>5, <2>6 DEF PeerTypes
  <2>8. ASSUME NEW d \in Delegated PROVE ToldPeer(d)'
    <3>1. CASE d = c
      <4>1. call'[c] = "registered" /\ reports'[c] = <<>> /\ Len(reports'[c]) = 0
        BY <2>1, <2>5, <1>0 DEF Q!PeersTypeOK
      <4> QED
        BY <3>1, <4>1, <2>4 DEF ToldPeer
    <3>2. CASE d # c
      <4>1. /\ call'[d] = call[d] /\ reports'[d] = reports[d] /\ remote'[d] = remote[d]
            /\ d \in Listed(pending') <=> d \in Listed(pending)
        BY <3>2, <2>4, <2>5, <1>0 DEF PeerTypes, Q!PeersTypeOK
      <4> QED
        BY <4>1, <1>t DEF ToldPeer
    <3> QED
      BY <3>1, <3>2
  <2>9. Distinct(round') /\ Listed(round') \subseteq Listed(pending')
    BY <2>4, <2>5 DEF PeerInv
  <2> QED
    BY <2>4, <2>7, <2>8, <2>9 DEF PeerInv
<1>5. ASSUME NEW c \in Delegated, NEW state \in {"completed", "failed"}, Q!Works(c, state)
      PROVE  PeerInv'
  <2>1. /\ remote[c] = "working" /\ remote' = [remote EXCEPT ![c] = state]
        /\ UNCHANGED <<call, spawned, living, proc, host, pending, round, reports>>
    BY <1>5 DEF Q!Works
  <2>2. PeerTypes'
    BY <1>0, <2>1 DEF PeerTypes, Q!PeersTypeOK
  <2>3. ASSUME NEW d \in Delegated PROVE ToldPeer(d)'
    <3>1. remote[d] = "completed" => remote'[d] = "completed"
      BY <2>1, <1>0 DEF PeerTypes
    <3> QED
      BY <3>1, <2>1, <1>t DEF ToldPeer
  <2> QED
    BY <2>1, <2>2, <2>3 DEF PeerInv
<1>6. ASSUME NEW p, Q!Dies(p) PROVE PeerInv'
  <2>1. living' \subseteq living
        /\ UNCHANGED <<call, spawned, proc, host, remote, pending, round, reports>>
    BY <1>6 DEF Q!Dies, Q!OfCall
  <2>2. PeerTypes'
    BY <1>0, <2>1 DEF PeerTypes, Q!PeersTypeOK
  <2> QED
    BY <2>1, <2>2, <1>t DEF PeerInv, ToldPeer
<1>7. ASSUME NEW c \in Delegated, Q!HourIsOver(c) PROVE PeerInv'
  <2>1. UNCHANGED <<call, spawned, living, proc, host, remote, pending, round, reports>>
    BY <1>7 DEF Q!HourIsOver
  <2> QED
    BY <2>1 DEF PeerInv, PeerTypes, Q!PeersTypeOK, ToldPeer
<1>8. CASE Q!Poll
  <2>1. round' = pending /\ UNCHANGED <<call, spawned, living, proc, host, remote, pending, reports>>
    BY <1>8 DEF Q!Poll
  <2>2. PeerTypes'
    BY <1>0, <2>1 DEF PeerTypes, Q!PeersTypeOK
  <2> QED
    BY <2>1, <2>2, <1>t DEF PeerInv, ToldPeer
<1>9. CASE Q!Terminate
  <2>1. /\ living' \subseteq living /\ proc' = {}
        /\ UNCHANGED <<call, spawned, host, remote, pending, round, reports>>
    BY <1>9 DEF Q!Terminate
  <2>2. PeerTypes'
    BY <1>0, <1>n, <2>1 DEF PeerTypes, Q!PeersTypeOK
  <2> QED
    BY <2>1, <2>2, <1>t DEF PeerInv, ToldPeer
<1>10. CASE Q!Check
  <2>0. round # <<>> /\ round \in Seq(Delegated) /\ Distinct(round)
    BY <1>10 DEF Q!Check, PeerInv, PeerTypes
  <2> DEFINE c == Head(round)
  <2>1. /\ round' = Tail(round)
        /\ UNCHANGED <<call, spawned, living, proc, host, remote, late>>
    BY <1>10 DEF Q!Check
  <2>2. /\ round' \in Seq(Delegated) /\ Distinct(round') /\ c \in Listed(round)
        /\ Listed(round') = Listed(round) \ {c}
    BY <2>0, <2>1, TailListed
  <2>3. c \in Listed(pending) /\ c \in Delegated
    <3>1. c \in Listed(pending)
      BY <2>2 DEF PeerInv
    <3>2. c \in Delegated
      BY <2>0
    <3> QED
      BY <3>1, <3>2
  <2>4. reports[c] = <<>> /\ call[c] = "registered"
    BY <2>3, <1>t DEF ToldPeer
  <2>5. CASE UNCHANGED <<pending, reports>>
    <3>1. PeerTypes'
      BY <1>0, <2>1, <2>2, <2>5 DEF PeerTypes, Q!PeersTypeOK
    <3>2. \A d \in Delegated : ToldPeer(d)'
      BY <2>1, <2>5, <1>t DEF ToldPeer
    <3> QED
      BY <3>1, <3>2, <2>2, <2>5 DEF PeerInv
  <2>6. ASSUME NEW what \in {"completed", "failed"}, what = "completed" => remote[c] = "completed",
               Q!Ends(c, what)
        PROVE  PeerInv'
    <3> DEFINE at == CHOOSE i \in DOMAIN pending : pending[i] = c
    <3>1. at \in DOMAIN pending /\ pending[at] = c
      BY <2>3 DEF Listed
    <3>2. pending' = Q!RemoveAt(pending, at) /\ reports' = [reports EXCEPT ![c] = Append(@, what)]
      BY <2>6 DEF Q!Ends
    <3> HIDE DEF c, at
    <3>3. pending' \in Seq(Delegated) /\ Distinct(pending') /\ Listed(pending') = Listed(pending) \ {c}
      BY <3>1, <3>2, RemovedOne DEF PeerInv, PeerTypes
    <3>4. reports'[c] = <<what>> /\ reports' \in [Delegated -> Seq({"completed", "failed"})]
      BY <3>2, <2>3, <2>4, <1>0 DEF PeerTypes
    <3>5. PeerTypes'
      BY <1>0, <2>1, <2>2, <3>3, <3>4 DEF PeerTypes, Q!PeersTypeOK
    <3>6. ASSUME NEW d \in Delegated PROVE ToldPeer(d)'
      <4>1. CASE d = c
        <5>1. Len(reports'[c]) = 1 /\ reports'[c] # <<>>
          BY <3>4
        <5>2. reports'[c] = <<"completed">> => what = "completed"
          BY <3>4
        <5>3. c \notin Listed(pending') /\ call'[c] = "registered" /\ remote' = remote
          BY <3>3, <2>1, <2>4
        <5> QED
          BY <4>1, <5>1, <5>2, <5>3, <2>6 DEF ToldPeer
      <4>2. CASE d # c
        <5>1. /\ reports'[d] = reports[d] /\ call' = call /\ remote' = remote
              /\ d \in Listed(pending') <=> d \in Listed(pending)
          BY <4>2, <3>2, <3>3, <2>1, <1>0 DEF PeerTypes
        <5> QED
          BY <5>1, <1>t DEF ToldPeer
      <4> QED
        BY <4>1, <4>2
    <3>7. Listed(round') \subseteq Listed(pending')
      BY <2>2, <3>3 DEF PeerInv
    <3> QED
      BY <2>2, <3>3, <3>5, <3>6, <3>7 DEF PeerInv
  <2>7. CASE c \in late
    <3>1. Q!Ends(c, "failed")
      BY <1>10, <2>7 DEF Q!Check
    <3> QED
      BY <3>1, <2>6
  <2>8. CASE c \notin late
    <3>1. PICK answer \in Q!Answers(c) :
            IF answer \in {"completed", "failed"} THEN Q!Ends(c, answer)
            ELSE UNCHANGED <<pending, reports, ending>>
      BY <1>10, <2>8 DEF Q!Check
    <3>2. answer = "completed" => remote[c] = "completed"
      BY <3>1 DEF Q!Answers
    <3>3. CASE answer \in {"completed", "failed"}
      BY <3>1, <3>2, <3>3, <2>6
    <3>4. CASE answer \notin {"completed", "failed"}
      BY <3>1, <3>4, <2>5
    <3> QED
      BY <3>3, <3>4
  <2> QED
    BY <2>7, <2>8
<1> QED
  BY <1>1, <1>2, <1>3, <1>4, <1>5, <1>6, <1>7, <1>8, <1>9, <1>10 DEF Q!PeersNext, Q!LockEnds

LEMMA PeersHold == PeerInv => Q!PeersTypeOK /\ Q!ReportedOnce
<1> SUFFICES ASSUME PeerInv PROVE Q!ReportedOnce
  BY DEF PeerInv, PeerTypes
<1>1. Q!ToSet(pending) = Listed(pending)
  BY DEF Q!ToSet, Listed
<1> QED
  BY <1>1 DEF PeerInv, ToldPeer, Q!ReportedOnce

-----------------------------------------------------------------------------
(* The shell commands.  A completion item is published once, so that a     *)
(* task is on the queue once at most, and not after its turn; what the     *)
(* agent has learnt is marked as consumed, which keeps the turn silent.    *)

TaskRecord ==
    [call : {"none", "fore", "returned", "back"},
     proc : {"none", "running", "exited", "killed"},
     pump : {"none", "running", "done", "cancelled"},
     late : BOOLEAN, armed : BOOLEAN, hooked : BOOLEAN,
     called : BOOLEAN, evict : BOOLEAN, sent : BOOLEAN,
     reason : {"natural", "timeout", "stopped"}]

\* What nobody has started is not published.
Unpublished(r) == r.call = "none" => ~r.hooked /\ ~r.sent

ToldShell(t) ==
    /\ Unpublished(task[t])
    /\ t \in Listed(items) => task[t].sent /\ told[t] = 0
    /\ told[t] > 0 => task[t].sent

ShellInv ==
    /\ H!ShellTypeOK
    /\ known \subseteq consumed
    /\ Distinct(items)
    /\ \A t \in Tasks : ToldShell(t)

LEMMA ShellTypes ==
    ASSUME ShellInv
    PROVE  /\ task \in [Tasks -> TaskRecord] /\ items \in Seq(Tasks) /\ told \in [Tasks -> Nat]
           /\ registry \subseteq Tasks /\ consumed \subseteq Tasks /\ waiting \subseteq Tasks
           /\ known \subseteq consumed /\ reads \in 0..MaxReads /\ MaxReads \in Nat
BY BackgroundAssumption DEF ShellInv, H!ShellTypeOK, TaskRecord, H!ShellAssumption

LEMMA ShellStart == H!Init => ShellInv
<1> SUFFICES ASSUME H!Init PROVE ShellInv
  OBVIOUS
<1>1. H!ShellTypeOK
  BY BackgroundAssumption DEF H!Init, H!Unborn, H!ShellTypeOK, H!ShellAssumption
<1>2. Distinct(items) /\ Listed(items) = {}
  BY DEF H!Init, Distinct, Listed
<1>3. ASSUME NEW t \in Tasks PROVE ToldShell(t)
  BY <1>2 DEF H!Init, H!Unborn, ToldShell, Unpublished
<1> QED
  BY <1>1, <1>2, <1>3 DEF ShellInv, H!Init

\* A step of one task that publishes nothing and tells nothing.
LEMMA ShellMoves ==
    ASSUME ShellInv, NEW t \in Tasks, NEW r \in TaskRecord, task' = [task EXCEPT ![t] = r],
           r.sent = task[t].sent, Unpublished(r),
           items' = items, told' = told, registry' \subseteq Tasks,
           consumed \subseteq consumed', consumed' \subseteq Tasks, waiting' \subseteq Tasks,
           known' \subseteq consumed', reads' \in 0..MaxReads
    PROVE  ShellInv'
<1>0. task \in [Tasks -> TaskRecord] /\ items \in Seq(Tasks) /\ told \in [Tasks -> Nat]
  BY ShellTypes
<1>1. task' \in [Tasks -> TaskRecord]
  BY <1>0
<1>2. H!ShellTypeOK'
  BY <1>0, <1>1 DEF H!ShellTypeOK, TaskRecord
<1>3. ASSUME NEW k \in Tasks PROVE ToldShell(k)'
  <2>1. Unpublished(task'[k]) /\ task'[k].sent = task[k].sent
    BY <1>0 DEF ShellInv, ToldShell
  <2> QED
    BY <2>1 DEF ShellInv, ToldShell
<1> QED
  BY <1>2, <1>3 DEF ShellInv

\* One that leaves the task as it is.
LEMMA ShellRests ==
    ASSUME ShellInv, NEW t \in Tasks, task' = task,
           items' = items, told' = told, registry' \subseteq Tasks,
           consumed \subseteq consumed', consumed' \subseteq Tasks, waiting' \subseteq Tasks,
           known' \subseteq consumed', reads' \in 0..MaxReads
    PROVE  ShellInv'
<1>1. task[t] \in TaskRecord /\ task' = [task EXCEPT ![t] = task[t]]
  BY ShellTypes
<1>2. Unpublished(task[t])
  BY DEF ShellInv, ToldShell
<1> QED
  BY <1>1, <1>2, ShellMoves

LEMMA ShellStep == ASSUME ShellInv, H!Next PROVE ShellInv' /\ (told' = told \/ H!CompletionTurn)
<1>0. /\ task \in [Tasks -> TaskRecord] /\ items \in Seq(Tasks) /\ told \in [Tasks -> Nat]
      /\ registry \subseteq Tasks /\ consumed \subseteq Tasks /\ waiting \subseteq Tasks
      /\ known \subseteq consumed /\ reads \in 0..MaxReads /\ MaxReads \in Nat
  BY ShellTypes
<1>t. \A t \in Tasks : ToldShell(t) /\ task[t] \in TaskRecord
  BY <1>0 DEF ShellInv
<1>1. CASE H!CompletionTurn
  <2>1. items # <<>> /\ items' = Tail(items) /\ UNCHANGED <<task, registry, consumed, waiting, known, reads>>
    BY <1>1 DEF H!CompletionTurn
  <2> DEFINE h == Head(items)
  <2>2. /\ items' \in Seq(Tasks) /\ Distinct(items') /\ h \in Listed(items)
        /\ Listed(items') = Listed(items) \ {h}
    BY <2>1, <1>0, TailListed DEF ShellInv
  <2>3. h \in Tasks
    BY <2>1, <1>0
  <2>4. task[h].sent /\ told[h] = 0
    BY <2>2, <2>3, <1>t DEF ToldShell
  <2>5. told' = told \/ told' = [told EXCEPT ![h] = @ + 1]
    BY <1>1 DEF H!CompletionTurn
  <2>6. told' \in [Tasks -> Nat]
    BY <2>3, <2>5, <1>0
  <2>7. H!ShellTypeOK'
    BY <2>1, <2>2, <2>6 DEF ShellInv, H!ShellTypeOK
  <2> HIDE DEF h
  <2>8. ASSUME NEW t \in Tasks PROVE ToldShell(t)'
    <3>1. CASE t = h
      BY <3>1, <2>1, <2>2, <2>4, <1>t DEF ToldShell
    <3>2. CASE t # h
      <4>1. told'[t] = told[t]
        BY <3>2, <2>5, <1>0
      <4> QED
        BY <4>1, <3>2, <2>1, <2>2, <1>t DEF ToldShell
    <3> QED
      BY <3>1, <3>2
  <2> QED
    BY <2>1, <2>2, <2>7, <2>8, <1>1 DEF ShellInv
<1>2. ASSUME NEW t \in Tasks, H!StartInBackground(t) PROVE ShellInv' /\ told' = told
  <2>0. PICK b \in BOOLEAN : b = (t \in Timed)
    <3>1. (t \in Timed) \in BOOLEAN
      OBVIOUS
    <3> QED
      BY <3>1, Zenon
  <2> DEFINE r == [H!Started("back") EXCEPT !.armed = b, !.hooked = TRUE]
  <2>1. r \in TaskRecord /\ r.sent = FALSE /\ r.call = "back"
    BY DEF TaskRecord, H!Started, H!Unborn
  <2>2. /\ task' = [task EXCEPT ![t] = r] /\ registry' = registry \union {t}
        /\ UNCHANGED <<consumed, items, waiting, told, known, reads>>
    BY <1>2, <2>0 DEF H!StartInBackground
  <2>3. task[t].sent = FALSE
    BY <1>2, <1>t DEF H!StartInBackground, ToldShell, Unpublished, TaskRecord
  <2> HIDE DEF r
  <2>4. r.sent = task[t].sent /\ Unpublished(r)
    BY <2>1, <2>3 DEF Unpublished
  <2> QED
    BY <2>1, <2>2, <2>4, <1>0, ShellMoves
<1>3. ASSUME NEW t \in Tasks, H!StartInForeground(t) PROVE ShellInv' /\ told' = told
  <2> DEFINE r == H!Started("fore")
  <2>1. r \in TaskRecord /\ r.sent = FALSE /\ r.call = "fore"
    BY DEF TaskRecord, H!Started, H!Unborn
  <2>2. /\ task' = [task EXCEPT ![t] = r]
        /\ UNCHANGED <<registry, consumed, items, waiting, told, known, reads>>
    BY <1>3 DEF H!StartInForeground
  <2>3. task[t].sent = FALSE
    BY <1>3, <1>t DEF H!StartInForeground, ToldShell, Unpublished, TaskRecord
  <2> HIDE DEF r
  <2>4. r.sent = task[t].sent /\ Unpublished(r)
    BY <2>1, <2>3 DEF Unpublished
  <2> QED
    BY <2>1, <2>2, <2>4, <1>0, ShellMoves
<1>4. ASSUME NEW t \in Tasks, H!ReturnInForeground(t) PROVE ShellInv' /\ told' = told
  <2> DEFINE r == [task[t] EXCEPT !.call = "returned"]
  <2>1. r \in TaskRecord /\ r.sent = task[t].sent /\ r.call = "returned"
    BY <1>t DEF TaskRecord
  <2>2. /\ task' = [task EXCEPT ![t] = r]
        /\ UNCHANGED <<registry, consumed, items, waiting, told, known, reads>>
    BY <1>4, <1>0 DEF H!ReturnInForeground
  <2> HIDE DEF r
  <2> QED
    BY <2>1, <2>2, <1>0, ShellMoves DEF Unpublished
<1>5. ASSUME NEW t \in Tasks, H!KillInForeground(t) PROVE ShellInv' /\ told' = told
  <2> DEFINE r == [task[t] EXCEPT !.call = "returned", !.proc = H!Killed(@),
                                  !.pump = IF @ = "done" THEN "done" ELSE "cancelled"]
  <2>1. r \in TaskRecord /\ r.sent = task[t].sent /\ r.call = "returned"
    BY <1>t DEF TaskRecord, H!Killed
  <2>2. /\ task' = [task EXCEPT ![t] = r]
        /\ UNCHANGED <<registry, consumed, items, waiting, told, known, reads>>
    BY <1>5, <1>0 DEF H!KillInForeground
  <2> HIDE DEF r
  <2> QED
    BY <2>1, <2>2, <1>0, ShellMoves DEF Unpublished
<1>6. ASSUME NEW t \in Tasks, H!Promote(t) PROVE ShellInv' /\ told' = told
  <2>0. PICK b \in BOOLEAN : b = (t \in Timed)
    <3>1. (t \in Timed) \in BOOLEAN
      OBVIOUS
    <3> QED
      BY <3>1, Zenon
  <2> DEFINE r == [task[t] EXCEPT !.call = "back", !.hooked = TRUE, !.armed = b]
  <2>1. r \in TaskRecord /\ r.sent = task[t].sent /\ r.call = "back"
    BY <1>t DEF TaskRecord
  <2>2. /\ task' = [task EXCEPT ![t] = r] /\ registry' = registry \union {t}
        /\ UNCHANGED <<consumed, items, waiting, told, known, reads>>
    BY <1>6, <2>0 DEF H!Promote, H!Promoted
  <2> HIDE DEF r
  <2> QED
    BY <2>1, <2>2, <1>0, ShellMoves DEF Unpublished
<1>7. ASSUME NEW t \in Tasks, H!Exit(t) PROVE ShellInv' /\ told' = told
  <2> DEFINE r == [task[t] EXCEPT !.proc = "exited"]
  <2>1. r \in TaskRecord /\ r.sent = task[t].sent /\ r.call = task[t].call /\ r.hooked = task[t].hooked
    BY <1>t DEF TaskRecord
  <2>2. /\ task' = [task EXCEPT ![t] = r]
        /\ UNCHANGED <<registry, consumed, items, waiting, told, known, reads>>
    BY <1>7, <1>0 DEF H!Exit
  <2> HIDE DEF r
  <2>3. Unpublished(r)
    BY <2>1, <1>t DEF Unpublished, ToldShell
  <2> QED
    BY <2>1, <2>2, <2>3, <1>0, ShellMoves
<1>8. ASSUME NEW t \in Tasks, H!PumpEnds(t) PROVE ShellInv' /\ told' = told
  <2> DEFINE r == [task[t] EXCEPT !.pump = "done"]
  <2>1. r \in TaskRecord /\ r.sent = task[t].sent /\ r.call = task[t].call /\ r.hooked = task[t].hooked
    BY <1>t DEF TaskRecord
  <2>2. /\ task' = [task EXCEPT ![t] = r]
        /\ UNCHANGED <<registry, consumed, items, waiting, told, known, reads>>
    BY <1>8, <1>0 DEF H!PumpEnds
  <2> HIDE DEF r
  <2>3. Unpublished(r)
    BY <2>1, <1>t DEF Unpublished, ToldShell
  <2> QED
    BY <2>1, <2>2, <2>3, <1>0, ShellMoves
<1>9. ASSUME NEW t \in Tasks, H!GetsLate(t) PROVE ShellInv' /\ told' = told
  <2> DEFINE r == [task[t] EXCEPT !.late = TRUE]
  <2>1. r \in TaskRecord /\ r.sent = task[t].sent /\ r.call = task[t].call /\ r.hooked = task[t].hooked
    BY <1>t DEF TaskRecord
  <2>2. /\ task' = [task EXCEPT ![t] = r]
        /\ UNCHANGED <<registry, consumed, items, waiting, told, known, reads>>
    BY <1>9, <1>0 DEF H!GetsLate
  <2> HIDE DEF r
  <2>3. Unpublished(r)
    BY <2>1, <1>t DEF Unpublished, ToldShell
  <2> QED
    BY <2>1, <2>2, <2>3, <1>0, ShellMoves
<1>10. ASSUME NEW t \in Tasks, H!Evict(t) PROVE ShellInv' /\ told' = told
  <2> DEFINE r == [task[t] EXCEPT !.evict = FALSE, !.armed = IF t \in registry THEN FALSE ELSE @]
  <2>1. r \in TaskRecord /\ r.sent = task[t].sent /\ r.call = task[t].call /\ r.hooked = task[t].hooked
    BY <1>t DEF TaskRecord
  <2>2. /\ task' = [task EXCEPT ![t] = r] /\ registry' = registry \ {t}
        /\ UNCHANGED <<consumed, items, waiting, told, known, reads>>
    BY <1>10, <1>0 DEF H!Evict
  <2> HIDE DEF r
  <2>3. Unpublished(r)
    BY <2>1, <1>t DEF Unpublished, ToldShell
  <2> QED
    BY <2>1, <2>2, <2>3, <1>0, ShellMoves
<1>11. ASSUME NEW t \in Tasks, H!PumpCallback(t) PROVE ShellInv' /\ told' = told
  <2> DEFINE r == [task[t] EXCEPT !.called = TRUE, !.evict = TRUE, !.sent = @ \/ H!Publishes(t)]
  <2>1. /\ task' = [task EXCEPT ![t] = r]
        /\ items' = IF H!Publishes(t) THEN Append(items, t) ELSE items
        /\ UNCHANGED <<registry, consumed, waiting, told, known, reads>>
    BY <1>11, <1>0 DEF H!PumpCallback
  <2>2. H!Publishes(t) \in BOOLEAN
    BY DEF H!Publishes
  <2>3. /\ r \in TaskRecord /\ r.sent = (task[t].sent \/ H!Publishes(t))
        /\ r.call = task[t].call /\ r.hooked = task[t].hooked
    BY <2>2, <1>t DEF TaskRecord
  <2>4. task[t].call # "none"
    BY <1>11, <1>t DEF H!PumpCallback, ToldShell, Unpublished
  <2> HIDE DEF r
  <2>5. Unpublished(r)
    BY <2>3, <2>4 DEF Unpublished
  <2>6. CASE ~H!Publishes(t)
    <3>1. r.sent = task[t].sent
      BY <2>3, <2>6, <1>t DEF TaskRecord
    <3> QED
      BY <2>1, <2>3, <2>5, <2>6, <3>1, <1>0, ShellMoves
  <2>7. CASE H!Publishes(t)
    <3>1. ~task[t].sent
      BY <2>7 DEF H!Publishes
    <3>2. t \notin Listed(items) /\ told[t] = 0
      BY <3>1, <1>t, <1>0 DEF ToldShell
    <3>3. items' \in Seq(Tasks) /\ Distinct(items') /\ Listed(items') = Listed(items) \cup {t}
      BY <3>2, <2>1, <2>7, <1>0, AppendListed DEF ShellInv
    <3>4. task' \in [Tasks -> TaskRecord]
      BY <2>1, <2>3, <1>0
    <3>5. H!ShellTypeOK'
      BY <2>1, <3>3, <3>4 DEF ShellInv, H!ShellTypeOK, TaskRecord
    <3>6. ASSUME NEW k \in Tasks PROVE ToldShell(k)'
      <4>1. CASE k = t
        <5>1. task'[t] = r /\ told' = told /\ r.sent
          BY <2>1, <2>3, <2>7, <1>0
        <5> QED
          BY <4>1, <5>1, <2>5, <3>2 DEF ToldShell
      <4>2. CASE k # t
        BY <4>2, <2>1, <3>3, <1>0, <1>t DEF ToldShell
      <4> QED
        BY <4>1, <4>2
    <3> QED
      BY <2>1, <3>3, <3>5, <3>6 DEF ShellInv
  <2> QED
    BY <2>1, <2>6, <2>7
<1>d. ASSUME NEW t \in Tasks, NEW why \in {"timeout", "stopped"}, H!Drop(t, why),
             items' = items, told' = told, reads' = reads, known' \subseteq known \union {t}
      PROVE  ShellInv'
  <2> DEFINE r == [task[t] EXCEPT !.proc = H!Killed(@), !.armed = FALSE, !.reason = why,
                                  !.pump = IF @ = "running" THEN "cancelled" ELSE @]
  <2>1. r \in TaskRecord /\ r.sent = task[t].sent /\ r.call = task[t].call /\ r.hooked = task[t].hooked
    BY <1>t DEF TaskRecord, H!Killed
  <2>2. /\ task' = [task EXCEPT ![t] = r] /\ registry' = registry \ {t}
        /\ consumed' = consumed \union {t} /\ waiting' \subseteq waiting
    BY <1>d, <1>0 DEF H!Drop
  <2> HIDE DEF r
  <2>3. Unpublished(r)
    BY <2>1, <1>t DEF Unpublished, ToldShell
  <2>4. known' \subseteq consumed' /\ consumed' \subseteq Tasks /\ registry' \subseteq Tasks
        /\ waiting' \subseteq Tasks /\ consumed \subseteq consumed'
    BY <1>d, <1>0, <2>2
  <2> QED
    BY <2>1, <2>2, <2>3, <2>4, <1>0, <1>d, ShellMoves
<1>o. ASSUME NEW t \in Tasks, H!TimesOut(t), UNCHANGED <<items, told, known>>,
             reads' \in {reads, reads + 1}, reads' <= MaxReads
      PROVE  ShellInv'
  <2>1. CASE t \in Routed
    <3> DEFINE r == [task[t] EXCEPT !.reason = "timeout", !.armed = FALSE, !.proc = H!Killed(@)]
    <3>1. r \in TaskRecord /\ r.sent = task[t].sent /\ r.call = task[t].call /\ r.hooked = task[t].hooked
      BY <1>t DEF TaskRecord, H!Killed
    <3>2. task' = [task EXCEPT ![t] = r] /\ UNCHANGED <<registry, consumed, waiting>>
      BY <1>o, <2>1, <1>0 DEF H!TimesOut
    <3> HIDE DEF r
    <3>3. Unpublished(r)
      BY <3>1, <1>t DEF Unpublished, ToldShell
    <3>4. reads' \in 0..MaxReads
      BY <1>o, <1>0
    <3> QED
      BY <3>1, <3>2, <3>3, <3>4, <1>o, <1>0, ShellMoves
  <2>2. CASE t \notin Routed
    <3> DEFINE r == [task[t] EXCEPT !.proc = H!Killed(@), !.armed = FALSE, !.reason = "timeout",
                                    !.pump = IF @ = "running" THEN "cancelled" ELSE @]
    <3>1. r \in TaskRecord /\ r.sent = task[t].sent /\ r.call = task[t].call /\ r.hooked = task[t].hooked
      BY <1>t DEF TaskRecord, H!Killed
    <3>2. /\ task' = [task EXCEPT ![t] = r] /\ registry' = registry \ {t}
          /\ consumed' = consumed \union {t} /\ waiting' \subseteq waiting
      BY <1>o, <2>2, <1>0 DEF H!TimesOut, H!Drop
    <3> HIDE DEF r
    <3>3. Unpublished(r)
      BY <3>1, <1>t DEF Unpublished, ToldShell
    <3>4. known' \subseteq consumed' /\ consumed' \subseteq Tasks /\ registry' \subseteq Tasks
          /\ waiting' \subseteq Tasks /\ consumed \subseteq consumed' /\ reads' \in 0..MaxReads
      BY <1>o, <1>0, <3>2
    <3> QED
      BY <3>1, <3>2, <3>3, <3>4, <1>o, <1>0, ShellMoves
  <2> QED
    BY <2>1, <2>2
<1>12. ASSUME NEW t \in Tasks, H!Timer(t) PROVE ShellInv' /\ told' = told
  <2>1. UNCHANGED <<items, told, known, reads>>
    BY <1>12 DEF H!Timer
  <2>2. CASE t \in registry
    <3>1. H!TimesOut(t)
      BY <1>12, <2>2 DEF H!Timer
    <3> QED
      BY <3>1, <2>1, <1>o, <1>0
  <2>3. CASE t \notin registry
    <3> DEFINE r == [task[t] EXCEPT !.armed = FALSE]
    <3>1. r \in TaskRecord /\ r.sent = task[t].sent /\ r.call = task[t].call /\ r.hooked = task[t].hooked
      BY <1>t DEF TaskRecord
    <3>2. task' = [task EXCEPT ![t] = r] /\ UNCHANGED <<registry, consumed, waiting>>
      BY <1>12, <2>3, <1>0 DEF H!Timer
    <3> HIDE DEF r
    <3>3. Unpublished(r)
      BY <3>1, <1>t DEF Unpublished, ToldShell
    <3> QED
      BY <3>1, <3>2, <3>3, <2>1, <1>0, ShellMoves
  <2> QED
    BY <2>2, <2>3
<1>13. ASSUME NEW t \in Tasks, NEW block \in BOOLEAN, H!Read(t, block)
       PROVE  ShellInv' /\ told' = told
  <2>1. reads < MaxReads /\ reads' = reads + 1 /\ UNCHANGED <<items, told>>
    BY <1>13 DEF H!Read
  <2>2. reads' \in 0..MaxReads
    BY <2>1, <1>0
  <2>3. CASE H!Over(t)
    <3>1. H!TimesOut(t) /\ UNCHANGED known
      BY <1>13, <2>3 DEF H!Read
    <3> QED
      BY <3>1, <2>1, <2>2, <1>o
  <2>4. CASE ~H!Over(t) /\ block /\ ~H!Ended(t)
    <3>1. waiting' = waiting \union {t} /\ UNCHANGED <<task, registry, consumed, known>>
      BY <1>13, <2>4 DEF H!Read
    <3> QED
      BY <3>1, <2>1, <2>2, <1>0, ShellRests
  <2>5. CASE ~H!Over(t) /\ ~(block /\ ~H!Ended(t))
    <3>1. H!Finds(t) /\ UNCHANGED <<task, registry, waiting>>
      BY <1>13, <2>5 DEF H!Read
    <3>2. consumed \subseteq consumed' /\ consumed' \subseteq Tasks /\ known' \subseteq consumed'
      BY <3>1, <1>0 DEF H!Finds
    <3> QED
      BY <3>1, <3>2, <2>1, <2>2, <1>0, ShellRests
  <2> QED
    BY <2>1, <2>3, <2>4, <2>5
<1>14. ASSUME NEW t \in Tasks, H!ReadReturns(t) PROVE ShellInv' /\ told' = told
  <2>1. waiting' \subseteq waiting /\ H!Finds(t) /\ UNCHANGED <<task, registry, items, told, reads>>
    BY <1>14 DEF H!ReadReturns
  <2>2. consumed \subseteq consumed' /\ consumed' \subseteq Tasks /\ known' \subseteq consumed'
    BY <2>1, <1>0 DEF H!Finds
  <2> QED
    BY <2>1, <2>2, <1>0, ShellRests
<1>15. ASSUME NEW t \in Tasks, H!StopTask(t) PROVE ShellInv' /\ told' = told
  <2>1. H!Drop(t, "stopped") /\ known' = known \union {t} /\ UNCHANGED <<items, told, reads>>
    BY <1>15 DEF H!StopTask
  <2> QED
    BY <2>1, <1>d
<1> QED
  <2> HIDE DEF ShellInv
  <2>1. CASE H!CompletionTurn
    BY <2>1, <1>1
  <2>2. CASE \E t \in Tasks : H!Runs(t) \/ H!Calls(t) \/ H!Exit(t) \/ H!GetsLate(t) \/ H!Evict(t)
    <3>1. PICK t \in Tasks : H!Runs(t) \/ H!Calls(t) \/ H!Exit(t) \/ H!GetsLate(t) \/ H!Evict(t)
      BY <2>2
    <3>2. CASE H!Runs(t)
      BY <3>2, <1>8, <1>11, <1>12, <1>14 DEF H!Runs
    <3>3. CASE H!Calls(t)
      BY <3>3, <1>2, <1>3, <1>4, <1>5, <1>6, <1>13, <1>15 DEF H!Calls
    <3> QED
      BY <3>1, <3>2, <3>3, <1>7, <1>9, <1>10
  <2> QED
    BY <2>1, <2>2 DEF H!Next

\* A completion turn tells a task once, and not what the agent has learnt.
LEMMA ShellTellsOnce ==
    ASSUME ShellInv, H!CompletionTurn
    PROVE  \A t \in Tasks : told'[t] # told[t] => told[t] = 0 /\ t \notin known
<1>0. items \in Seq(Tasks) /\ told \in [Tasks -> Nat] /\ known \subseteq consumed
  BY ShellTypes
<1> DEFINE h == Head(items)
<1>1. h \in Listed(items) /\ h \in Tasks
  BY <1>0, TailListed DEF ShellInv, H!CompletionTurn
<1>2. CASE H!IsConsumed(h)
  BY <1>2 DEF H!CompletionTurn
<1>3. CASE ~H!IsConsumed(h)
  <2>1. told' = [told EXCEPT ![h] = @ + 1] /\ h \notin known
    BY <1>3, <1>0 DEF H!CompletionTurn, H!IsConsumed
  <2>2. told[h] = 0
    BY <1>1 DEF ShellInv, ToldShell
  <2> QED
    BY <2>1, <2>2, <1>0
<1> QED
  BY <1>2, <1>3

-----------------------------------------------------------------------------
(* The three together, as they are run.                                    *)

BackInv == ShellInv /\ SubInv /\ PeerInv

LEMMA BackStart == BackInit => BackInv
BY ShellStart, SubagentsStart, PeersStart DEF BackInit, BackInv

LEMMA BackStep ==
    ASSUME BackInv, [BackNext]_backVars
    PROVE  BackInv' /\ (told' = told \/ H!CompletionTurn)
<1> USE DEF BackInv
<1>1. ASSUME UNCHANGED shellVars PROVE ShellInv' /\ told' = told
  BY <1>1 DEF shellVars, ShellInv, H!ShellTypeOK, ToldShell, Unpublished
<1>2. ASSUME UNCHANGED suVars PROVE SubInv'
  BY <1>2 DEF suVars, SubInv, SubagentsTypeOK, JobInv
<1>3. ASSUME UNCHANGED peerVars PROVE PeerInv'
  BY <1>3 DEF peerVars, PeerInv, PeerTypes, Q!PeersTypeOK, ToldPeer
<1>4. CASE UNCHANGED backVars
  BY <1>4, <1>1, <1>2, <1>3 DEF backVars
<1>5. CASE H!Next /\ UNCHANGED <<suVars, proVars, peerVars>>
  BY <1>5, <1>2, <1>3, ShellStep
<1>6. CASE Next /\ UNCHANGED <<shellVars, proVars, peerVars>>
  BY <1>6, <1>1, <1>3, SubagentsStep
<1>7. CASE P!Next /\ UNCHANGED <<shellVars, suVars, peerVars>>
  BY <1>7, <1>1, <1>2, <1>3
<1>8. CASE Q!PeersNext /\ UNCHANGED <<shellVars, suVars, proVars>>
  BY <1>8, <1>1, <1>2, PeersStep
<1> QED
  BY <1>4, <1>5, <1>6, <1>7, <1>8 DEF BackNext

\* For any number of commands, jobs and delegated tasks: a completion turn tells a
\* command once and never what the agent has read or stopped, a job that is cancelled
\* once is announced once and with one end, the jobs in flight stay within the limit,
\* and the end of a task of a peer agent is reported once, and of a success only if
\* the peer had one (agent/tools/shell.py, subagent_manager.py, poller.py).
THEOREM EndsAreToldOnceAlways == BackSpec => EndsAreToldOnce
<1>1. BackInit => BackInv
  BY BackStart
<1>2. BackInv /\ [BackNext]_backVars => BackInv'
  BY BackStep
<1>3. BackInv => BackgroundTypeOK /\ LimitHolds /\ EndSaidOnce /\ Q!ReportedOnce
  BY SubagentsHold, PeersHold DEF BackInv, BackgroundTypeOK, ShellInv
<1>4. BackInv /\ [BackNext]_backVars
      => [\A t \in Tasks : told'[t] # told[t] => told[t] = 0 /\ t \notin known]_told
  BY BackStep, ShellTellsOnce DEF BackInv
<1> QED
  BY <1>1, <1>2, <1>3, <1>4, PTL DEF BackSpec, EndsAreToldOnce, H!ToldOnce

-----------------------------------------------------------------------------
(* The proactive loop: types.                                              *)

Names == P!Items \cup Texts \cup {""} \cup {Url[i] : i \in Contents}

AckKinds == {"cited", "told", "uncited", "declined", "repeated"}

CtxRecord ==
    [fallback : BOOLEAN, alerts : SUBSET Alerts, contents : SUBSET Contents,
     interesting : SUBSET P!Items, discarded : SUBSET P!Items, drafted : BOOLEAN,
     evidence : SUBSET P!Items, text : Texts \cup {""},
     decision : {"none", "reply", "skip"}, acks : SUBSET (P!Items \X AckKinds),
     pushes : Nat, sent : BOOLEAN]

HeardRecord ==
    [key : SUBSET Names, cited : SUBSET P!Items, pages : SUBSET Names, at : Nat,
     tick : Nat, drift : BOOLEAN, marked : BOOLEAN]

ProTypes ==
    /\ hour \in 1..MaxHours /\ ticks \in 0..MaxTicks /\ stage \in P!Stages
    /\ ctx \in CtxRecord /\ ctx.interesting \intersect ctx.discarded = {}
    /\ gone \in [P!Items -> AckKinds \cup {"no"}]
    /\ \A k \in DOMAIN deliveries : deliveries[k] \in 1..hour
    /\ contextAt \in 0..hour /\ driftAt \in 0..hour
    /\ quota \in [day : Nat, used : 0..QuotaMax]
    /\ heard \in Seq(HeardRecord)
    /\ \A i \in DOMAIN heard : heard[i].at \in 1..hour /\ heard[i].tick \in 1..ticks
    /\ lost \subseteq 1..ticks
    /\ stage # "idle" => ticks \in 1..ticks

LEMMA ProConstants ==
    /\ ContentLimit \in Nat /\ Cooldown \in Nat /\ DedupeHours \in Nat /\ QuotaMax \in Nat
    /\ MaxTicks \in Nat /\ MaxPushes \in Nat /\ MaxHours \in Nat /\ MaxHours >= 1
    /\ Day \in Nat /\ Day >= 1 /\ DOMAIN Url = Contents
BY BackgroundAssumption DEF P!ProactiveAssumption

\* The hours of a day follow those of the day before.
LEMMA LaterDay == ASSUME NEW a \in Nat, NEW b \in Nat, a <= b PROVE a \div Day <= b \div Day
<1>0. Day \in Nat \ {0}
  BY ProConstants
<1> DEFINE q == a \div Day
           r == b \div Day
<1>1. q \in Nat /\ r \in Nat
  BY <1>0
<1>2. Day * q <= a /\ b < Day * (r + 1)
  BY <1>0
<1> HIDE DEF q, r
<1>3. Day * q < Day * (r + 1)
  BY <1>0, <1>1, <1>2
<1>4. ASSUME r + 1 <= q PROVE FALSE
  <2>1. PICK k \in Nat : q = (r + 1) + k
    <3>1. q - (r + 1) \in Nat /\ q = (r + 1) + (q - (r + 1))
      BY <1>4, <1>1
    <3> QED
      BY <3>1
  <2>2. Day * q = Day * (r + 1) + Day * k /\ Day * k \in Nat /\ Day * (r + 1) \in Nat
    BY <2>1, <1>0, <1>1
  <2> QED
    BY <2>2, <1>3
<1>5. q <= r
  BY <1>1, <1>4
<1> QED
  BY <1>5 DEF q, r

LEMMA HoursOfADay == ASSUME NEW a \in Nat PROVE a \div Day \in Nat
BY ProConstants

\* The context of a new tick.
LEMMA FreshContext ==
    /\ P!Fresh \in CtxRecord /\ P!Fresh.acks = {} /\ P!Fresh.decision = "none"
    /\ P!Fresh.interesting = {} /\ P!Fresh.sent = FALSE
BY DEF P!Fresh, CtxRecord

\* The key of a message, and the pages it is about.
LEMMA KeysAndPages ==
    ASSUME NEW c \in CtxRecord
    PROVE  /\ P!Key(c) \in SUBSET Names /\ P!Pages(c) \in SUBSET Names
           /\ P!Pages(c) # {} => P!Key(c) = P!Pages(c)
<1>1. c.evidence \subseteq P!Items /\ c.contents \subseteq Contents /\ c.text \in Texts \cup {""}
  BY DEF CtxRecord
<1>2. P!Pages(c) \subseteq Names
  BY <1>1 DEF P!Pages, Names
<1>3. P!Pages(c) # {} => c.evidence # {}
  BY DEF P!Pages
<1>4. P!Key(c) \subseteq Names
  BY <1>1, <1>2 DEF P!Key, Names
<1> QED
  BY <1>2, <1>3, <1>4 DEF P!Key

LEMMA KeyOfContext ==
    ASSUME NEW c \in CtxRecord, NEW d \in CtxRecord,
           c.evidence = d.evidence, c.contents = d.contents, c.text = d.text
    PROVE  P!Key(c) = P!Key(d) /\ P!Pages(c) = P!Pages(d)
BY DEF P!Key, P!Pages

\* The table after a delivery.
LEMMA DeliveryRecorded ==
    ASSUME ProTypes, NEW key
    PROVE  /\ DOMAIN P!Recorded(key) = DOMAIN deliveries \cup {key} /\ P!Recorded(key)[key] = hour
           /\ \A k \in DOMAIN deliveries : P!Recorded(key)[k] >= deliveries[k]
           /\ \A k \in DOMAIN P!Recorded(key) : P!Recorded(key)[k] \in 1..hour
BY ProConstants DEF P!Recorded, ProTypes

-----------------------------------------------------------------------------
(* What the stages of a tick know.                                         *)

\* Nothing is sent yet, and the action is not recorded.
Prep == {"fetch", "loop", "complete", "reflect", "decide"}
Counting == Prep \cup {"drift"}

\* What is heard, and what is about to be sent, is in the session.
LogInv ==
    /\ P!HeardIsLogged
    /\ stage = "send" => P!Key(ctx) \in chatLog

\* The message of this tick is the last one heard.
SentInv ==
    stage = "sent" =>
        /\ Len(heard) >= 1
        /\ heard[Len(heard)].key = P!Key(ctx) /\ heard[Len(heard)].cited = ctx.evidence
        /\ heard[Len(heard)].tick = ticks

WasCited(i) == \E h \in DOMAIN heard : i \in heard[h].cited

\* What the sources are told next is true of what was heard.
AckInv ==
    /\ P!AcksAreEarned
    /\ stage = "ack" => \A p \in ctx.acks : p[2] \in {"cited", "told"} => WasCited(p[1])

\* A recorded delivery is in the table, with its time or a later one.
MarkInv ==
    \A i \in DOMAIN heard :
        /\ heard[i].marked => /\ heard[i].key \in DOMAIN deliveries
                              /\ deliveries[heard[i].key] >= heard[i].at
        /\ heard[i].pages # {} => heard[i].key = heard[i].pages

FarFrom(i, hours) == heard[i].marked /\ heard[i].tick # ticks => hour - heard[i].at > hours

\* A tick that has passed the gate, and a message that has passed the check.
GapInv ==
    /\ P!SpacedOut
    /\ stage # "idle" => \A i \in DOMAIN heard : FarFrom(i, Cooldown)
    /\ stage = "send" =>
         \A i \in DOMAIN heard :
             heard[i].pages = P!Pages(ctx) /\ heard[i].pages # {} => FarFrom(i, DedupeHours)

\* Nothing of a tick is heard before it sends, and of a drift only what it pushed.
OwnInv ==
    /\ stage \in Prep \cup {"post", "send"} => \A i \in DOMAIN heard : heard[i].tick # ticks
    /\ stage = "drift" => \A i \in DOMAIN heard : heard[i].tick = ticks => heard[i].drift

\* The ticks of a day that reached the user, without the drifts that died.
TicksOn(d) ==
    {heard[i].tick : i \in {h \in DOMAIN heard :
         heard[h].at \div Day = d /\ ~(heard[h].drift /\ heard[h].tick \in lost)}}

\* A message that will be sent has had its action recorded.
Reserved == stage = "send" \/ (stage = "post" /\ ctx.decision = "reply")

QuotaInv ==
    /\ \A d \in Nat : Cardinality(TicksOn(d)) <= QuotaMax
    /\ stage \in Counting =>
         /\ quota.day = P!Today /\ quota.used < QuotaMax
         /\ Cardinality(TicksOn(P!Today) \ {ticks}) <= quota.used
    /\ Reserved => quota.day = P!Today /\ Cardinality(TicksOn(P!Today)) < quota.used
    /\ stage \notin Counting => Cardinality(TicksOn(P!Today)) <= P!Used

ProInv ==
    ProTypes /\ LogInv /\ SentInv /\ AckInv /\ MarkInv /\ GapInv /\ OwnInv /\ QuotaInv

-----------------------------------------------------------------------------
(* Counting the ticks of a day.                                            *)

LEMMA HeardAt ==
    ASSUME ProTypes
    PROVE  /\ Len(heard) \in Nat /\ DOMAIN heard = 1..Len(heard)
           /\ \A i \in DOMAIN heard : /\ heard[i] \in HeardRecord
                                      /\ heard[i].at \in 1..hour /\ heard[i].tick \in 1..ticks
           /\ hour \in Nat /\ ticks \in Nat /\ P!Today \in Nat
           /\ quota.day \in Nat /\ quota.used \in 0..QuotaMax /\ QuotaMax \in Nat
<1>1. hour \in Nat /\ ticks \in Nat /\ QuotaMax \in Nat
  BY ProConstants DEF ProTypes
<1>2. P!Today \in Nat
  BY <1>1, HoursOfADay DEF P!Today
<1>3. quota.day \in Nat /\ quota.used \in 0..QuotaMax
  BY DEF ProTypes
<1>4. /\ Len(heard) \in Nat /\ DOMAIN heard = 1..Len(heard)
      /\ \A i \in DOMAIN heard : /\ heard[i] \in HeardRecord
                                 /\ heard[i].at \in 1..hour /\ heard[i].tick \in 1..ticks
  BY DEF ProTypes
<1> QED
  BY <1>1, <1>2, <1>3, <1>4

LEMMA TicksCounted ==
    ASSUME ProTypes, NEW d \in Nat
    PROVE  /\ TicksOn(d) \subseteq 1..ticks /\ IsFiniteSet(TicksOn(d))
           /\ Cardinality(TicksOn(d)) \in Nat
           /\ Cardinality(TicksOn(d) \ {ticks}) \in Nat
           /\ Cardinality(TicksOn(d)) <= Cardinality(TicksOn(d) \ {ticks}) + 1
           /\ \A S \in SUBSET TicksOn(d) :
                Cardinality(S) \in Nat /\ Cardinality(S) <= Cardinality(TicksOn(d))
<1>1. TicksOn(d) \subseteq 1..ticks /\ ticks \in Nat
  BY HeardAt DEF TicksOn
<1>2. PICK T : T = TicksOn(d)
  OBVIOUS
<1>3. IsFiniteSet(T)
  <2>1. IsFiniteSet(1..ticks)
    BY <1>1, FS_Interval
  <2>2. T \subseteq 1..ticks
    BY <1>1, <1>2
  <2> QED
    BY <2>1, <2>2, FS_Subset
<1>4. Cardinality(T) \in Nat /\ IsFiniteSet(T \ {ticks})
  BY <1>3, FS_CardinalityType, FS_Subset
<1>5. Cardinality(T \ {ticks}) \in Nat
  BY <1>4, FS_CardinalityType
<1>6. Cardinality(T) <= Cardinality(T \ {ticks}) + 1
  <2>1. CASE ticks \in T
    <3>1. T = (T \ {ticks}) \cup {ticks} /\ ticks \notin T \ {ticks}
      BY <2>1
    <3>2. Cardinality((T \ {ticks}) \cup {ticks}) = Cardinality(T \ {ticks}) + 1
      BY <1>4, FS_AddElement
    <3> QED
      BY <3>1, <3>2, <1>4
  <2>2. CASE ticks \notin T
    <3> DEFINE R == T \ {ticks}
    <3>1. T = R
      BY <2>2
    <3>2. Cardinality(R) \in Nat
      BY <1>5
    <3> HIDE DEF R
    <3>3. Cardinality(T) <= Cardinality(R) + 1
      BY <3>1, <3>2
    <3> QED
      BY <3>3 DEF R
  <2> QED
    BY <2>1, <2>2
<1>7. ASSUME NEW S \in SUBSET T
      PROVE  Cardinality(S) \in Nat /\ Cardinality(S) <= Cardinality(T)
  <2>1. IsFiniteSet(S) /\ Cardinality(S) <= Cardinality(T)
    BY <1>3, FS_Subset
  <2> QED
    BY <2>1, FS_CardinalityType
<1> QED
  BY <1>1, <1>2, <1>3, <1>4, <1>5, <1>6, <1>7

\* One more tick is at most one more.
LEMMA OneMoreTick ==
    ASSUME ProTypes, NEW d \in Nat, NEW S \in SUBSET (TicksOn(d) \cup {ticks})
    PROVE  Cardinality(S) \in Nat /\ Cardinality(S) <= Cardinality(TicksOn(d)) + 1
<1>1. PICK T : T = TicksOn(d)
  OBVIOUS
<1>2. IsFiniteSet(T) /\ Cardinality(T) \in Nat
  BY <1>1, TicksCounted
<1>3. IsFiniteSet(T \cup {ticks}) /\ Cardinality(T \cup {ticks}) <= Cardinality(T) + 1
      /\ Cardinality(T \cup {ticks}) \in Nat
  <2>1. CASE ticks \in T
    <3>1. T \cup {ticks} = T
      BY <2>1
    <3> QED
      BY <3>1, <1>2
  <2>2. CASE ticks \notin T
    BY <2>2, <1>2, FS_AddElement
  <2> QED
    BY <2>1, <2>2
<1>4. IsFiniteSet(S) /\ Cardinality(S) <= Cardinality(T \cup {ticks})
  BY <1>1, <1>3, FS_Subset
<1>5. Cardinality(S) \in Nat
  BY <1>4, FS_CardinalityType
<1> QED
  BY <1>1, <1>2, <1>3, <1>4, <1>5

LEMMA TicksKept ==
    ASSUME heard' = heard, lost' = lost, NEW CONSTANT d
    PROVE  TicksOn(d)' = TicksOn(d)
BY DEF TicksOn

LEMMA NotYetCounted ==
    ASSUME OwnInv, stage \in Prep \cup {"post", "send"}, NEW d
    PROVE  ticks \notin TicksOn(d)
BY DEF OwnInv, TicksOn

LEMMA QuotaStays ==
    ASSUME ProTypes, QuotaInv,
           heard' = heard, lost' = lost, hour' = hour, ticks' = ticks, quota' = quota,
           stage' \in Counting <=> stage \in Counting, Reserved' => Reserved
    PROVE  QuotaInv'
<1>1. PICK day \in Nat : day = P!Today
  BY HeardAt
<1>2. P!Today' = day /\ P!Used' = P!Used
  BY <1>1 DEF P!Today, P!Used
<1>3. \A d \in Nat : TicksOn(d)' = TicksOn(d)
  BY TicksKept
<1>4. TicksOn(P!Today)' = TicksOn(day)
  BY <1>1 DEF TicksOn, P!Today
<1> QED
  BY <1>1, <1>2, <1>3, <1>4 DEF QuotaInv

-----------------------------------------------------------------------------
(* The steps.                                                              *)

\* A step of the preparation, which only sorts and drafts.
LEMMA PrepStep ==
    ASSUME ProInv, stage \in Prep, stage' \in Prep \cup {"drift"},
           ctx' \in CtxRecord, ctx'.interesting \intersect ctx'.discarded = {},
           UNCHANGED <<hour, ticks, gone, deliveries, contextAt, driftAt, quota, chatLog, heard, lost>>
    PROVE  ProInv'
<1>1. ProTypes'
  BY DEF ProInv, ProTypes, P!Stages, Prep
<1>2. LogInv' /\ SentInv' /\ MarkInv'
  BY DEF ProInv, LogInv, SentInv, MarkInv, P!HeardIsLogged, Prep
<1>3. AckInv'
  BY DEF ProInv, AckInv, P!AcksAreEarned, Prep
<1>4. GapInv'
  BY DEF ProInv, GapInv, P!SpacedOut, FarFrom, Prep
<1>5. OwnInv'
  BY DEF ProInv, OwnInv, Prep
<1>6. QuotaInv'
  <2>1. stage \in Counting /\ stage' \in Counting /\ ~Reserved'
    BY DEF Counting, Prep, Reserved
  <2> QED
    BY <2>1, QuotaStays DEF ProInv
<1> QED
  BY <1>1, <1>2, <1>3, <1>4, <1>5, <1>6 DEF ProInv

LEMMA TickStep == ASSUME ProInv, NEW f \in BOOLEAN, P!Tick(f) PROVE ProInv'
<1>0. /\ ProTypes /\ Len(heard) \in Nat /\ DOMAIN heard = 1..Len(heard)
      /\ \A i \in DOMAIN heard : /\ heard[i] \in HeardRecord
                                 /\ heard[i].at \in 1..hour /\ heard[i].tick \in 1..ticks
      /\ hour \in Nat /\ ticks \in Nat /\ P!Today \in Nat
      /\ quota.day \in Nat /\ quota.used \in 0..QuotaMax /\ QuotaMax \in Nat
  BY HeardAt DEF ProInv
<1>1. /\ stage = "idle" /\ ticks < MaxTicks /\ ~P!CoolsDown /\ P!Used < QuotaMax
      /\ ticks' = ticks + 1 /\ stage' = "fetch"
      /\ ctx' = [P!Fresh EXCEPT !.fallback = f]
      /\ quota' = [quota EXCEPT !.day = P!Today, !.used = P!Used]
      /\ UNCHANGED <<hour, gone, deliveries, contextAt, driftAt, chatLog, heard, lost>>
  BY DEF P!Tick
<1>2. ctx' \in CtxRecord /\ ctx'.interesting = {} /\ ctx'.acks = {} /\ ctx'.decision = "none"
  BY <1>1, FreshContext DEF CtxRecord
<1>3. P!Used \in 0..QuotaMax
  BY <1>0 DEF P!Used
<1>4. /\ quota' \in [day : Nat, used : 0..QuotaMax]
      /\ quota'.day = P!Today /\ quota'.used = P!Used
  BY <1>0, <1>1, <1>3 DEF ProTypes
<1>5. ProTypes'
  <2>1. ticks' \in 0..MaxTicks /\ ticks' \in 1..ticks'
    BY <1>0, <1>1, ProConstants
  <2>2. \A i \in DOMAIN heard : heard[i].at \in 1..hour /\ heard[i].tick \in 1..ticks'
    BY <1>0, <1>1
  <2>3. lost \subseteq 1..ticks'
    BY <1>0, <1>1 DEF ProTypes
  <2>4. ctx'.interesting \intersect ctx'.discarded = {} /\ stage' \in P!Stages
    BY <1>1, <1>2 DEF P!Stages
  <2> QED
    BY <2>1, <2>2, <2>3, <2>4, <1>0, <1>1, <1>2, <1>4 DEF ProTypes
<1>6. LogInv' /\ SentInv' /\ MarkInv' /\ AckInv'
  BY <1>1 DEF ProInv, LogInv, SentInv, MarkInv, AckInv, P!HeardIsLogged, P!AcksAreEarned
<1>7. OwnInv'
  BY <1>0, <1>1 DEF OwnInv
<1>8. GapInv'
  <2>1. ASSUME NEW i \in DOMAIN heard, heard[i].marked PROVE hour - heard[i].at > Cooldown
    <3>1. PICK at \in 1..hour : at = heard[i].at
      BY <1>0
    <3>2. heard[i].key \in DOMAIN deliveries /\ deliveries[heard[i].key] >= heard[i].at
      BY <2>1 DEF ProInv, MarkInv
    <3>3. PICK last \in 1..hour : last = deliveries[heard[i].key]
      BY <3>2, <1>0 DEF ProTypes
    <3>4. ~P!Within(last, Cooldown)
      BY <3>2, <3>3, <1>1 DEF P!CoolsDown
    <3>5. hour - last > Cooldown
      BY <3>3, <3>4, <1>0, ProConstants DEF P!Within, P!Never
    <3> QED
      BY <3>1, <3>2, <3>3, <3>5, <1>0, ProConstants
  <2> QED
    BY <2>1, <1>1 DEF ProInv, GapInv, P!SpacedOut, FarFrom
<1>9. QuotaInv'
  <2>1. PICK day \in Nat : day = P!Today
    BY <1>0
  <2>2. P!Today' = day /\ quota'.day = day /\ quota'.used = P!Used
    BY <1>1, <1>4, <2>1 DEF P!Today
  <2>3. \A d \in Nat : TicksOn(d)' = TicksOn(d)
    BY <1>1, TicksKept
  <2>4. TicksOn(P!Today)' = TicksOn(day)
    BY <1>1, <2>1 DEF TicksOn, P!Today
  <2>5. Cardinality(TicksOn(day)) <= P!Used
    BY <1>1, <2>1 DEF ProInv, QuotaInv, Counting, Prep
  <2>6. Cardinality(TicksOn(day) \ {ticks'}) <= P!Used
    <3>1. TicksOn(day) \ {ticks'} \in SUBSET TicksOn(day)
      OBVIOUS
    <3>2. Cardinality(TicksOn(day) \ {ticks'}) \in Nat
          /\ Cardinality(TicksOn(day) \ {ticks'}) <= Cardinality(TicksOn(day))
      BY <3>1, <1>0, <2>1, TicksCounted
    <3>3. Cardinality(TicksOn(day)) \in Nat
      BY <1>0, <2>1, TicksCounted
    <3> QED
      BY <3>2, <3>3, <2>5, <1>3, <1>0
  <2>7. stage' \in Counting /\ ~Reserved'
    BY <1>1 DEF Counting, Prep, Reserved
  <2>8. \A d \in Nat : Cardinality(TicksOn(d)) <= QuotaMax
    BY DEF ProInv, QuotaInv
  <2> QED
    BY <2>2, <2>3, <2>4, <2>6, <2>7, <2>8, <1>1 DEF QuotaInv
<1> QED
  BY <1>5, <1>6, <1>7, <1>8, <1>9 DEF ProInv

LEMMA LoopStep == ASSUME ProInv, P!Loop PROVE ProInv'
<1>0. ctx \in CtxRecord /\ ctx.interesting \intersect ctx.discarded = {}
  BY DEF ProInv, ProTypes
<1>1. ASSUME NEW i \in P!Items, P!MarkInteresting(i) \/ P!MarkNotInteresting(i) PROVE ProInv'
  <2>1. stage \in Prep /\ stage' = stage
        /\ UNCHANGED <<hour, ticks, gone, deliveries, contextAt, driftAt, quota, chatLog, heard, lost>>
    BY <1>1 DEF P!MarkInteresting, P!MarkNotInteresting, P!Deciding, P!Phases, Prep
  <2>2. ctx' \in CtxRecord /\ ctx'.interesting \intersect ctx'.discarded = {}
    <3>1. CASE P!MarkInteresting(i)
      <4>1. i \notin ctx.discarded /\ ctx' = [ctx EXCEPT !.interesting = @ \union {i}]
        BY <3>1 DEF P!MarkInteresting
      <4> QED
        BY <4>1, <1>0 DEF CtxRecord
    <3>2. CASE P!MarkNotInteresting(i)
      <4>1. ctx' = [ctx EXCEPT !.discarded = @ \union {i}, !.interesting = @ \ {i}]
        BY <3>2 DEF P!MarkNotInteresting
      <4> QED
        BY <4>1, <1>0 DEF CtxRecord
    <3> QED
      BY <1>1, <3>1, <3>2
  <2> QED
    BY <2>1, <2>2, PrepStep
<1>2. ASSUME NEW e \in SUBSET P!Items, NEW t \in Texts, P!MessagePush(e, t) PROVE ProInv'
  <2>1. stage \in Prep /\ stage' = stage
        /\ UNCHANGED <<hour, ticks, gone, deliveries, contextAt, driftAt, quota, chatLog, heard, lost>>
    BY <1>2 DEF P!MessagePush, P!Deciding, P!Phases, Prep
  <2>2. ctx' \in CtxRecord /\ ctx'.interesting \intersect ctx'.discarded = {}
    BY <1>0, <1>2 DEF P!MessagePush, CtxRecord
  <2> QED
    BY <2>1, <2>2, PrepStep
<1>3. CASE P!FinishReply \/ P!FinishSkip
  <2>1. stage \in Prep /\ stage' = stage
        /\ UNCHANGED <<hour, ticks, gone, deliveries, contextAt, driftAt, quota, chatLog, heard, lost>>
    BY <1>3 DEF P!FinishReply, P!FinishSkip, P!Deciding, P!Phases, Prep
  <2>2. ctx' \in CtxRecord /\ ctx'.interesting \intersect ctx'.discarded = {}
    <3>1. CASE P!FinishReply
      BY <1>0, <3>1 DEF P!FinishReply, CtxRecord
    <3>2. CASE P!FinishSkip
      BY <1>0, <3>2 DEF P!FinishSkip, CtxRecord
    <3> QED
      BY <1>3, <3>1, <3>2
  <2> QED
    BY <2>1, <2>2, PrepStep
<1>4. CASE P!PhaseEnds
  <2>1. stage \in Prep /\ stage' \in Prep
        /\ UNCHANGED <<hour, ticks, gone, deliveries, contextAt, driftAt, quota, chatLog, heard, lost>>
    BY <1>4 DEF P!PhaseEnds, P!Phases, Prep
  <2>2. ctx' = ctx \/ ctx' = [ctx EXCEPT !.decision = "none"]
    BY <1>4 DEF P!PhaseEnds
  <2>3. ctx' \in CtxRecord /\ ctx'.interesting \intersect ctx'.discarded = {}
    BY <1>0, <2>2 DEF CtxRecord
  <2> QED
    BY <2>1, <2>3, PrepStep
<1> QED
  BY <1>1, <1>2, <1>3, <1>4 DEF P!Loop

LEMMA FetchStep ==
    ASSUME ProInv, P!EnterDrift \/ \E a \in SUBSET Alerts, c \in SUBSET Contents : P!Prefetch(a, c)
    PROVE  ProInv'
<1>0. ctx \in CtxRecord /\ ctx.interesting \intersect ctx.discarded = {}
  BY DEF ProInv, ProTypes
<1>1. CASE P!EnterDrift
  <2>1. stage \in Prep /\ stage' = "drift" /\ ctx' = ctx
        /\ UNCHANGED <<hour, ticks, gone, deliveries, contextAt, driftAt, quota, chatLog, heard, lost>>
    BY <1>1 DEF P!EnterDrift, Prep
  <2> QED
    BY <2>1, <1>0, PrepStep
<1>2. ASSUME NEW a \in SUBSET Alerts, NEW c \in SUBSET Contents, P!Prefetch(a, c) PROVE ProInv'
  <2>1. stage \in Prep /\ stage' \in Prep
        /\ UNCHANGED <<hour, ticks, gone, deliveries, contextAt, driftAt, quota, chatLog, heard, lost>>
    BY <1>2 DEF P!Prefetch, Prep
  <2>2. PICK decision \in {"skip", "none"} :
          ctx' = [ctx EXCEPT !.alerts = a, !.contents = c, !.decision = decision]
    <3>1. CASE a = {} /\ c = {} /\ ~ctx.fallback
      BY <1>2, <3>1 DEF P!Prefetch
    <3>2. CASE ~(a = {} /\ c = {} /\ ~ctx.fallback)
      BY <1>2, <3>2 DEF P!Prefetch
    <3> QED
      BY <3>1, <3>2
  <2>3. ctx' \in CtxRecord /\ ctx'.interesting \intersect ctx'.discarded = {}
    BY <1>0, <2>2 DEF CtxRecord
  <2> QED
    BY <2>1, <2>3, PrepStep
<1> QED
  BY <1>1, <1>2

\* The action of a message is recorded.
LEMMA DecideStep == ASSUME ProInv, P!Decide PROVE ProInv'
<1>0. ProTypes /\ ticks \in Nat /\ P!Today \in Nat
      /\ quota.day \in Nat /\ quota.used \in 0..QuotaMax /\ QuotaMax \in Nat
  BY HeardAt DEF ProInv
<1>1. /\ stage = "decide" /\ stage' = "post"
      /\ UNCHANGED <<hour, ticks, ctx, gone, deliveries, contextAt, driftAt, chatLog, heard, lost>>
  BY DEF P!Decide
<1>2. quota.day = P!Today /\ quota.used < QuotaMax /\ P!Used = quota.used
  BY <1>1 DEF ProInv, QuotaInv, Counting, Prep, P!Used
<1>3. /\ quota' \in [day : Nat, used : 0..QuotaMax] /\ quota'.day = P!Today
      /\ quota'.used = IF ctx.decision = "reply" THEN quota.used + 1 ELSE quota.used
  <2>1. CASE ctx.decision = "reply"
    <3>1. quota' = [day |-> P!Today, used |-> quota.used + 1]
      BY <1>2, <2>1 DEF P!Decide, P!RecordAction
    <3> QED
      BY <3>1, <2>1, <1>0, <1>2
  <2>2. CASE ctx.decision # "reply"
    <3>1. quota' = quota
      BY <2>2 DEF P!Decide
    <3> QED
      BY <3>1, <2>2, <1>0, <1>2 DEF ProTypes
  <2> QED
    BY <2>1, <2>2
<1>4. ProTypes'
  BY <1>0, <1>1, <1>3 DEF ProTypes, P!Stages
<1>5. LogInv' /\ SentInv' /\ MarkInv' /\ AckInv'
  BY <1>1 DEF ProInv, LogInv, SentInv, MarkInv, AckInv, P!HeardIsLogged, P!AcksAreEarned
<1>6. GapInv'
  BY <1>1 DEF ProInv, GapInv, P!SpacedOut, FarFrom
<1>7. OwnInv'
  BY <1>1 DEF ProInv, OwnInv, Prep
<1>8. QuotaInv'
  <2>1. PICK day \in Nat : day = P!Today
    BY <1>0
  <2>2. P!Today' = day /\ quota'.day = day /\ P!Used' = quota'.used
    BY <1>1, <1>3, <2>1 DEF P!Today, P!Used
  <2>3. \A d \in Nat : TicksOn(d)' = TicksOn(d)
    BY <1>1, TicksKept
  <2>4. TicksOn(P!Today)' = TicksOn(day)
    BY <1>1, <2>1 DEF TicksOn, P!Today
  <2>5. ticks \notin TicksOn(day)
    BY <1>1, NotYetCounted DEF ProInv, Prep
  <2>6. Cardinality(TicksOn(day)) <= quota.used
    <3>1. TicksOn(day) \ {ticks} = TicksOn(day)
      BY <2>5
    <3>2. Cardinality(TicksOn(day) \ {ticks}) <= quota.used
      BY <1>1, <2>1 DEF ProInv, QuotaInv, Counting, Prep
    <3> QED
      BY <3>1, <3>2
  <2>7. Cardinality(TicksOn(day)) \in Nat
    BY <1>0, <2>1, TicksCounted
  <2>8. stage' \notin Counting /\ (Reserved' => ctx.decision = "reply")
    BY <1>1 DEF Counting, Prep, Reserved
  <2>9. \A d \in Nat : Cardinality(TicksOn(d)) <= QuotaMax
    BY DEF ProInv, QuotaInv
  <2>10. /\ Reserved' => Cardinality(TicksOn(day)) < quota'.used
         /\ Cardinality(TicksOn(day)) <= quota'.used
    BY <2>6, <2>7, <2>8, <1>3, <1>0
  <2> QED
    BY <2>2, <2>3, <2>4, <2>8, <2>9, <2>10 DEF QuotaInv
<1> QED
  BY <1>4, <1>5, <1>6, <1>7, <1>8 DEF ProInv

\* What a message leads to for the sources.
LEMMA AcksTyped ==
    ASSUME ctx \in CtxRecord
    PROVE  /\ P!AckDiscarded \in SUBSET (P!Items \X AckKinds)
           /\ P!AckOnSuccess \in SUBSET (P!Items \X AckKinds)
           /\ P!AckPostGuardFail \in SUBSET (P!Items \X AckKinds)
           /\ \A p \in P!AckDiscarded : p[2] = "declined"
           /\ \A p \in P!AckPostGuardFail : p[2] \in {"declined", "repeated"}
           /\ \A p \in P!AckOnSuccess : p[2] \in {"cited", "told"} => p[1] \in ctx.evidence
<1>1. /\ ctx.evidence \subseteq P!Items /\ ctx.discarded \subseteq P!Items
      /\ ctx.alerts \subseteq P!Items /\ ctx.interesting \subseteq P!Items
  BY DEF CtxRecord, P!Items
<1>2. P!Uncited \subseteq P!Items
  BY <1>1 DEF P!Uncited
<1>3. /\ P!AckDiscarded \in SUBSET (P!Items \X AckKinds)
      /\ \A p \in P!AckDiscarded : p[2] = "declined"
  BY <1>1 DEF P!AckDiscarded, P!Pair, AckKinds
<1>4. /\ P!AckPostGuardFail \in SUBSET (P!Items \X AckKinds)
      /\ \A p \in P!AckPostGuardFail : p[2] \in {"declined", "repeated"}
  <2>1. /\ P!Pair(ctx.evidence \union ctx.alerts \union P!Uncited, "repeated")
             \in SUBSET (P!Items \X AckKinds)
        /\ \A p \in P!Pair(ctx.evidence \union ctx.alerts \union P!Uncited, "repeated") :
             p[2] = "repeated"
    BY <1>1, <1>2 DEF P!Pair, AckKinds
  <2> QED
    BY <2>1, <1>3 DEF P!AckPostGuardFail
<1>5. /\ P!AckOnSuccess \in SUBSET (P!Items \X AckKinds)
      /\ \A p \in P!AckOnSuccess : p[2] \in {"cited", "told"} => p[1] \in ctx.evidence
  <2>1. ASSUME NEW p \in P!AckOnSuccess
        PROVE  p \in P!Items \X AckKinds /\ (p[2] \in {"cited", "told"} => p[1] \in ctx.evidence)
    <3>1. CASE p \in P!Pair(ctx.evidence \intersect ctx.contents, "cited")
      BY <3>1, <1>1 DEF P!Pair, AckKinds
    <3>2. CASE p \in P!Pair(ctx.evidence \intersect ctx.alerts, "told")
      BY <3>2, <1>1 DEF P!Pair, AckKinds
    <3>3. CASE p \in P!Pair(P!Uncited, "uncited")
      BY <3>3, <1>2 DEF P!Pair, AckKinds
    <3>4. CASE p \in P!AckDiscarded
      BY <3>4, <1>3
    <3> QED
      BY <3>1, <3>2, <3>3, <3>4 DEF P!AckOnSuccess
  <2> QED
    BY <2>1
<1> QED
  BY <1>3, <1>4, <1>5

LEMMA PostStep == ASSUME ProInv, P!PostLoop PROVE ProInv'
<1>0. ProTypes /\ ctx \in CtxRecord
  BY DEF ProInv, ProTypes
<1>1. /\ stage = "post"
      /\ UNCHANGED <<hour, ticks, gone, deliveries, contextAt, driftAt, quota, heard, lost>>
  BY DEF P!PostLoop
<1>2. ASSUME NEW acks \in SUBSET (P!Items \X AckKinds),
             \A p \in acks : p[2] \in {"declined", "repeated"}, P!Skipped(acks)
      PROVE  ProInv'
  <2>1. stage' = "ack" /\ ctx' = [ctx EXCEPT !.acks = acks] /\ chatLog' = chatLog
    BY <1>2 DEF P!Skipped
  <2>2. ctx' \in CtxRecord /\ ctx'.interesting = ctx.interesting
        /\ ctx'.discarded = ctx.discarded /\ ctx'.acks = acks
    BY <1>0, <2>1 DEF CtxRecord
  <2>3. ProTypes'
    BY <1>0, <1>1, <2>1, <2>2 DEF ProTypes, P!Stages
  <2>4. LogInv' /\ SentInv' /\ MarkInv' /\ OwnInv'
    BY <1>1, <2>1 DEF ProInv, LogInv, SentInv, MarkInv, OwnInv, P!HeardIsLogged, Prep
  <2>5. AckInv'
    <3>1. \A p \in ctx'.acks : p[2] \notin {"cited", "told"}
      BY <1>2, <2>2
    <3> QED
      BY <3>1, <1>1 DEF ProInv, AckInv, P!AcksAreEarned
  <2>6. GapInv'
    BY <1>1, <2>1 DEF ProInv, GapInv, P!SpacedOut, FarFrom
  <2>7. QuotaInv'
    <3>1. stage \notin Counting /\ stage' \notin Counting /\ ~Reserved'
      BY <1>1, <2>1 DEF Counting, Prep, Reserved
    <3> QED
      BY <3>1, <1>1, QuotaStays DEF ProInv
  <2> QED
    BY <2>3, <2>4, <2>5, <2>6, <2>7 DEF ProInv
<1>3. CASE /\ ctx.decision = "reply" /\ ~P!IsRepeated /\ chatLog' = chatLog \union {P!Key(ctx)}
           /\ stage' = "send" /\ UNCHANGED ctx
  <2>1. ProTypes'
    BY <1>0, <1>1, <1>3 DEF ProTypes, P!Stages
  <2>2. P!Key(ctx)' = P!Key(ctx) /\ P!Pages(ctx)' = P!Pages(ctx)
    BY <1>3 DEF P!Key, P!Pages
  <2>3. LogInv'
    BY <1>1, <1>3, <2>2 DEF ProInv, LogInv, P!HeardIsLogged
  <2>4. SentInv' /\ MarkInv' /\ OwnInv' /\ AckInv'
    BY <1>1, <1>3 DEF ProInv, SentInv, MarkInv, OwnInv, AckInv, P!AcksAreEarned, Prep
  <2>5. GapInv'
    <3>1. P!SpacedOut' /\ \A i \in DOMAIN heard' : FarFrom(i, Cooldown)'
      BY <1>1, <1>3 DEF ProInv, GapInv, P!SpacedOut, FarFrom
    <3>2. ASSUME NEW i \in DOMAIN heard, heard[i].pages = P!Pages(ctx), heard[i].pages # {}
          PROVE  FarFrom(i, DedupeHours)
      <4>1. SUFFICES ASSUME heard[i].marked, heard[i].tick # ticks
                     PROVE  hour - heard[i].at > DedupeHours
        BY DEF FarFrom
      <4>2. /\ heard[i].key = P!Key(ctx)
            /\ heard[i].key \in DOMAIN deliveries /\ deliveries[heard[i].key] >= heard[i].at
        BY <1>0, <3>2, <4>1, KeysAndPages DEF ProInv, MarkInv
      <4>3. PICK at \in 1..hour : at = heard[i].at
        BY <1>0, HeardAt
      <4>4. PICK last \in 1..hour : last = deliveries[P!Key(ctx)]
        BY <4>2, <1>0 DEF ProTypes
      <4>5. ~P!Within(last, DedupeHours)
        BY <4>2, <4>4, <1>3 DEF P!IsRepeated
      <4>6. hour \in Nat /\ DedupeHours \in Nat
        BY <1>0, HeardAt, ProConstants
      <4>7. hour - last > DedupeHours
        BY <4>4, <4>5, <4>6 DEF P!Within, P!Never
      <4> QED
        BY <4>2, <4>3, <4>4, <4>6, <4>7
    <3> QED
      BY <3>1, <3>2, <2>2, <1>1 DEF GapInv, FarFrom
  <2>6. QuotaInv'
    <3>1. stage \notin Counting /\ stage' \notin Counting /\ Reserved
      BY <1>1, <1>3 DEF Counting, Prep, Reserved
    <3> QED
      BY <3>1, <1>1, QuotaStays DEF ProInv
  <2> QED
    BY <2>1, <2>3, <2>4, <2>5, <2>6 DEF ProInv
<1>4. /\ P!AckDiscarded \in SUBSET (P!Items \X AckKinds)
      /\ P!AckPostGuardFail \in SUBSET (P!Items \X AckKinds)
      /\ \A p \in P!AckDiscarded : p[2] \in {"declined", "repeated"}
      /\ \A p \in P!AckPostGuardFail : p[2] \in {"declined", "repeated"}
  BY <1>0, AcksTyped
<1> QED
  BY <1>2, <1>3, <1>4 DEF P!PostLoop

-----------------------------------------------------------------------------
(* What is heard.                                                          *)

LEMMA HeardGrows ==
    ASSUME ProTypes, NEW rec \in HeardRecord, heard' = Append(heard, rec)
    PROVE  /\ heard' \in Seq(HeardRecord) /\ Len(heard') = Len(heard) + 1
           /\ DOMAIN heard' = DOMAIN heard \cup {Len(heard) + 1}
           /\ Len(heard) + 1 \notin DOMAIN heard
           /\ heard'[Len(heard) + 1] = rec
           /\ \A i \in DOMAIN heard : heard'[i] = heard[i] /\ i < Len(heard) + 1
<1>1. heard \in Seq(HeardRecord) /\ Len(heard) \in Nat /\ DOMAIN heard = 1..Len(heard)
  BY HeardAt DEF ProTypes
<1>2. /\ heard' \in Seq(HeardRecord) /\ Len(heard') = Len(heard) + 1
      /\ heard'[Len(heard) + 1] = rec
      /\ \A i \in 1..Len(heard) : heard'[i] = heard[i]
  BY <1>1, AppendProperties
<1>3. DOMAIN heard' = 1..Len(heard)+1
  BY <1>1, <1>2
<1>4. 1..Len(heard)+1 = (1..Len(heard)) \cup {Len(heard) + 1}
  BY <1>1
<1> QED
  BY <1>1, <1>2, <1>3, <1>4

\* A message of this tick, heard now: it is logged, its pages are in its key, and
\* it follows the messages of other ticks at the distances due.
Heardable(rec) ==
    /\ rec \in HeardRecord /\ rec.at = hour /\ rec.tick = ticks
    /\ rec.pages # {} => rec.key = rec.pages
    /\ \A i \in DOMAIN heard : rec.pages = heard[i].pages /\ rec.pages # {}
                                 => FarFrom(i, DedupeHours)

LEMMA HeardNow ==
    ASSUME ProInv, NEW rec, Heardable(rec), stage # "idle", heard' = Append(heard, rec),
           hour' = hour, ticks' = ticks, gone' = gone, chatLog \subseteq chatLog',
           rec.key \in chatLog',
           DOMAIN deliveries \subseteq DOMAIN deliveries',
           \A k \in DOMAIN deliveries : deliveries'[k] >= deliveries[k],
           \A k \in DOMAIN deliveries' : deliveries'[k] \in 1..hour,
           rec.marked => rec.key \in DOMAIN deliveries' /\ deliveries'[rec.key] = hour
    PROVE  /\ heard' \in Seq(HeardRecord)
           /\ \A i \in DOMAIN heard' : heard'[i].at \in 1..hour /\ heard'[i].tick \in 1..ticks
           /\ P!HeardIsLogged' /\ P!AcksAreEarned' /\ MarkInv' /\ P!SpacedOut'
           /\ \A i \in DOMAIN heard' : FarFrom(i, Cooldown)'
<1> DEFINE n == Len(heard) + 1
<1>0. /\ ProTypes /\ Len(heard) \in Nat /\ DOMAIN heard = 1..Len(heard)
      /\ hour \in Nat /\ hour >= 1 /\ ticks \in 1..ticks /\ ticks \in Nat
      /\ \A i \in DOMAIN heard : /\ heard[i].at \in 1..hour /\ heard[i].tick \in 1..ticks
  BY HeardAt DEF ProInv, ProTypes
<1>r. rec \in HeardRecord /\ rec.at = hour /\ rec.tick = ticks
  BY DEF Heardable
<1>1. /\ heard' \in Seq(HeardRecord) /\ DOMAIN heard' = DOMAIN heard \cup {n} /\ n \notin DOMAIN heard
      /\ heard'[n] = rec /\ \A i \in DOMAIN heard : heard'[i] = heard[i] /\ i < n
  BY <1>0, <1>r, HeardGrows
<1> HIDE DEF n
<1>2. \A i \in DOMAIN heard' : heard'[i].at \in 1..hour /\ heard'[i].tick \in 1..ticks
  BY <1>0, <1>1, <1>r
<1>3. P!HeardIsLogged'
  BY <1>1 DEF ProInv, LogInv, P!HeardIsLogged
<1>4. P!AcksAreEarned'
  <2>1. ASSUME NEW i \in P!Items, gone[i] \in {"cited", "told"}
        PROVE  \E h \in DOMAIN heard' : i \in heard'[h].cited
    <3>1. PICK h \in DOMAIN heard : i \in heard[h].cited
      BY <2>1 DEF ProInv, AckInv, P!AcksAreEarned
    <3> QED
      BY <3>1, <1>1
  <2> QED
    BY <2>1 DEF P!AcksAreEarned
<1>5. MarkInv'
  <2>1. ASSUME NEW i \in DOMAIN heard'
        PROVE  /\ heard'[i].marked => /\ heard'[i].key \in DOMAIN deliveries'
                                      /\ deliveries'[heard'[i].key] >= heard'[i].at
               /\ heard'[i].pages # {} => heard'[i].key = heard'[i].pages
    <3>1. CASE i = n
      <4>1. rec.marked => deliveries'[rec.key] >= rec.at
        BY <1>0, <1>r
      <4> QED
        BY <3>1, <4>1, <1>1 DEF Heardable
    <3>2. CASE i \in DOMAIN heard
      <4>1. heard'[i] = heard[i]
        BY <3>2, <1>1
      <4>2. /\ heard[i].marked => /\ heard[i].key \in DOMAIN deliveries
                                  /\ deliveries[heard[i].key] >= heard[i].at
            /\ heard[i].pages # {} => heard[i].key = heard[i].pages
        BY <3>2 DEF ProInv, MarkInv
      <4>3. ASSUME heard[i].marked PROVE deliveries'[heard[i].key] >= heard[i].at
        <5>1. PICK k : k = heard[i].key
          OBVIOUS
        <5>2. k \in DOMAIN deliveries /\ deliveries[k] \in Nat /\ deliveries[k] >= heard[i].at
          BY <4>2, <4>3, <5>1, <1>0 DEF ProTypes
        <5>3. deliveries'[k] \in Nat /\ deliveries'[k] >= deliveries[k]
          BY <5>2, <1>0
        <5>4. heard[i].at \in Nat
          BY <3>2, <1>0
        <5> QED
          BY <5>1, <5>2, <5>3, <5>4
      <4> QED
        BY <4>1, <4>2, <4>3
    <3> QED
      BY <3>1, <3>2, <1>1
  <2> QED
    BY <2>1 DEF MarkInv
<1>6. \A i \in DOMAIN heard : FarFrom(i, Cooldown)
  BY DEF ProInv, GapInv
<1>7. P!SpacedOut'
  <2>1. ASSUME NEW i \in DOMAIN heard', NEW j \in DOMAIN heard', i < j, heard'[i].marked,
               heard'[i].tick # heard'[j].tick
        PROVE  /\ heard'[j].at - heard'[i].at > Cooldown
               /\ heard'[i].pages = heard'[j].pages /\ heard'[j].pages # {} =>
                    heard'[j].at - heard'[i].at > DedupeHours
    <3>1. i \in DOMAIN heard /\ heard'[i] = heard[i]
      <4>1. i # n
        BY <2>1, <1>0, <1>1
      <4> QED
        BY <4>1, <1>1
    <3>2. CASE j \in DOMAIN heard
      BY <3>1, <3>2, <2>1, <1>1 DEF ProInv, GapInv, P!SpacedOut
    <3>3. CASE j = n
      <4>1. heard[i].tick # ticks /\ heard[i].marked /\ heard'[j] = rec
        BY <3>1, <3>3, <2>1, <1>1, <1>r
      <4>2. hour - heard[i].at > Cooldown
        BY <4>1, <3>1, <1>6 DEF FarFrom
      <4>3. heard[i].pages = rec.pages /\ rec.pages # {} => hour - heard[i].at > DedupeHours
        BY <4>1, <3>1 DEF Heardable, FarFrom
      <4> QED
        BY <4>1, <4>2, <4>3, <3>1, <1>r
    <3> QED
      BY <3>2, <3>3, <1>1
  <2> QED
    BY <2>1 DEF P!SpacedOut
<1>8. \A i \in DOMAIN heard' : FarFrom(i, Cooldown)'
  BY <1>1, <1>6, <1>r DEF FarFrom
<1> QED
  BY <1>1, <1>2, <1>3, <1>4, <1>5, <1>7, <1>8

\* The ticks of a day after a message.
LEMMA TicksGrow ==
    ASSUME ProTypes, NEW rec \in HeardRecord, rec.at = hour, rec.tick = ticks,
           heard' = Append(heard, rec), lost' = lost, NEW CONSTANT d
    PROVE  /\ TicksOn(d)' \subseteq TicksOn(d) \cup {ticks}
           /\ d # P!Today => TicksOn(d)' \subseteq TicksOn(d)
<1> DEFINE n == Len(heard) + 1
<1>1. /\ DOMAIN heard' = DOMAIN heard \cup {n}
      /\ heard'[n] = rec /\ \A i \in DOMAIN heard : heard'[i] = heard[i]
  BY HeardGrows
<1> HIDE DEF n
<1>2. ASSUME NEW x \in TicksOn(d)' PROVE x \in TicksOn(d) \/ (x = ticks /\ d = P!Today)
  <2>1. PICK i \in DOMAIN heard' : /\ x = heard'[i].tick /\ heard'[i].at \div Day = d
                                   /\ ~(heard'[i].drift /\ heard'[i].tick \in lost)
    BY <1>2 DEF TicksOn
  <2>2. CASE i = n
    BY <2>1, <2>2, <1>1 DEF P!Today
  <2>3. CASE i \in DOMAIN heard
    BY <2>1, <2>3, <1>1 DEF TicksOn
  <2> QED
    BY <2>2, <2>3, <1>1
<1> QED
  BY <1>2

\* A message that was reserved, or of a drift, is within the quota.
LEMMA QuotaOfMessage ==
    ASSUME ProTypes, QuotaInv, NEW rec \in HeardRecord, rec.at = hour, rec.tick = ticks,
           heard' = Append(heard, rec), lost' = lost, hour' = hour, ticks' = ticks, quota' = quota,
           \/ stage = "send" /\ stage' \in {"sent", "ack"}
           \/ stage = "drift" /\ stage' = "drift"
    PROVE  QuotaInv'
<1>0. /\ P!Today \in Nat /\ quota.day \in Nat /\ quota.used \in 0..QuotaMax /\ QuotaMax \in Nat
  BY HeardAt
<1>1. PICK day \in Nat : day = P!Today
  BY <1>0
<1>2. P!Today' = day /\ P!Used' = P!Used
  BY <1>1 DEF P!Today, P!Used
<1>3. TicksOn(P!Today)' = TicksOn(day)'
  BY <1>1 DEF TicksOn, P!Today
<1>4. PICK T, U : T = TicksOn(day) /\ U = TicksOn(day)'
  OBVIOUS
<1>5. U \subseteq T \cup {ticks}
  BY <1>4, TicksGrow
<1>6. /\ Cardinality(T) \in Nat /\ Cardinality(T \ {ticks}) \in Nat
      /\ Cardinality(T) <= Cardinality(T \ {ticks}) + 1
      /\ \A S \in SUBSET T : Cardinality(S) \in Nat /\ Cardinality(S) <= Cardinality(T)
      /\ IsFiniteSet(T)
  BY <1>4, TicksCounted
<1>7. Cardinality(U) \in Nat /\ Cardinality(U) <= Cardinality(T) + 1
  BY <1>4, <1>5, OneMoreTick
<1>8. \A d \in Nat \ {day} : Cardinality(TicksOn(d)') <= QuotaMax
  <2>1. ASSUME NEW d \in Nat \ {day} PROVE Cardinality(TicksOn(d)') <= QuotaMax
    <3>1. TicksOn(d)' \in SUBSET TicksOn(d)
      BY <1>1, TicksGrow
    <3>2. PICK V : V = TicksOn(d)'
      OBVIOUS
    <3>3. Cardinality(V) \in Nat /\ Cardinality(V) <= Cardinality(TicksOn(d))
      BY <3>1, <3>2, TicksCounted
    <3>4. Cardinality(TicksOn(d)) <= QuotaMax /\ Cardinality(TicksOn(d)) \in Nat
      BY TicksCounted DEF QuotaInv
    <3> QED
      BY <3>2, <3>3, <3>4, <1>0
  <2> QED
    BY <2>1
<1>9. CASE stage = "send" /\ stage' \in {"sent", "ack"}
  <2>1. quota.day = day /\ Cardinality(T) < quota.used
    BY <1>9, <1>1, <1>4 DEF QuotaInv, Reserved
  <2>2. Cardinality(U) <= quota.used /\ Cardinality(U) <= QuotaMax
    BY <2>1, <1>0, <1>6, <1>7
  <2>3. stage' \notin Counting /\ ~Reserved' /\ P!Used = quota.used
    BY <1>9, <2>1, <1>1 DEF Counting, Prep, Reserved, P!Used
  <2>4. \A d \in Nat : Cardinality(TicksOn(d)') <= QuotaMax
    BY <2>2, <1>4, <1>8
  <2>5. Cardinality(TicksOn(P!Today)') <= P!Used'
    BY <2>2, <2>3, <1>2, <1>3, <1>4
  <2> QED
    BY <2>3, <2>4, <2>5 DEF QuotaInv
<1>10. CASE stage = "drift" /\ stage' = "drift"
  <2>1. quota.day = day /\ quota.used < QuotaMax /\ Cardinality(T \ {ticks}) <= quota.used
    BY <1>10, <1>1, <1>4 DEF QuotaInv, Counting
  <2>2. U \ {ticks} \subseteq T \ {ticks} /\ IsFiniteSet(T \ {ticks})
    BY <1>5, <1>6, FS_Subset
  <2>3. Cardinality(U \ {ticks}) <= Cardinality(T \ {ticks}) /\ Cardinality(U \ {ticks}) \in Nat
    BY <2>2, FS_Subset, FS_CardinalityType
  <2>4. Cardinality(U \ {ticks}) <= quota.used
    BY <2>1, <2>3, <1>0, <1>6
  <2>5. Cardinality(U) <= Cardinality(T \ {ticks}) + 1
    <3> DEFINE R == T \ {ticks}
    <3>1. ticks \notin R /\ U \subseteq R \cup {ticks} /\ IsFiniteSet(R)
      BY <1>5, <2>2
    <3> HIDE DEF R
    <3>2. IsFiniteSet(R \cup {ticks}) /\ Cardinality(R \cup {ticks}) = Cardinality(R) + 1
      BY <3>1, FS_AddElement
    <3>3. Cardinality(U) <= Cardinality(R \cup {ticks})
      BY <3>1, <3>2, FS_Subset
    <3>4. Cardinality(U) <= Cardinality(R) + 1
      BY <3>2, <3>3
    <3> QED
      BY <3>4 DEF R
  <2>6. Cardinality(U) <= QuotaMax
    BY <2>1, <2>5, <1>0, <1>6, <1>7
  <2>7. \A d \in Nat : Cardinality(TicksOn(d)') <= QuotaMax
    BY <2>6, <1>4, <1>8
  <2>8. stage' \in Counting /\ ~Reserved' /\ quota'.day = day /\ quota'.used = quota.used
    BY <1>10, <2>1 DEF Counting, Reserved
  <2>9. Cardinality(TicksOn(P!Today)' \ {ticks'}) <= quota'.used
    BY <2>4, <2>8, <1>3, <1>4
  <2> QED
    BY <2>1, <2>7, <2>8, <2>9, <1>2 DEF QuotaInv
<1> QED
  BY <1>9, <1>10

LEMMA DispatchStep ==
    ASSUME ProInv, NEW arrives \in BOOLEAN, NEW reported \in BOOLEAN, P!Dispatch(arrives, reported)
    PROVE  ProInv'
<1>0. ProTypes /\ ctx \in CtxRecord /\ ctx.interesting \intersect ctx.discarded = {}
  BY DEF ProInv, ProTypes
<1>1. /\ stage = "send" /\ (reported => arrives)
      /\ UNCHANGED <<hour, ticks, gone, deliveries, contextAt, driftAt, quota, chatLog, lost>>
  BY DEF P!Dispatch
<1>2. \/ reported /\ stage' = "sent" /\ ctx' = ctx
      \/ ~reported /\ stage' = "ack" /\ ctx' = [ctx EXCEPT !.acks = P!AckOnFailure]
  BY DEF P!Dispatch
<1>3. /\ P!AckOnFailure \in SUBSET (P!Items \X AckKinds)
      /\ \A p \in P!AckOnFailure : p[2] = "declined"
  BY <1>0, AcksTyped DEF P!AckOnFailure
<1>4. /\ ctx' \in CtxRecord /\ ctx'.interesting \intersect ctx'.discarded = {}
      /\ ctx'.evidence = ctx.evidence /\ ctx'.contents = ctx.contents /\ ctx'.text = ctx.text
      /\ ~reported => ctx'.acks = P!AckOnFailure
  BY <1>0, <1>2, <1>3 DEF CtxRecord
<1>5. stage' \in {"sent", "ack"}
  BY <1>2
<1>6. CASE arrives
  <2>1. PICK b \in BOOLEAN : b = (stage = "drift")
    <3>1. (stage = "drift") \in BOOLEAN
      OBVIOUS
    <3> QED
      BY <3>1, Zenon
  <2> DEFINE rec == [key |-> P!Key(ctx), cited |-> ctx.evidence, pages |-> P!Pages(ctx), at |-> hour,
                     tick |-> ticks, drift |-> b, marked |-> FALSE]
  <2>2. heard' = Append(heard, rec)
    BY <1>6, <2>1 DEF P!Dispatch, P!Hear
  <2>3. P!Key(ctx) \in SUBSET Names /\ P!Pages(ctx) \in SUBSET Names
        /\ (P!Pages(ctx) # {} => P!Key(ctx) = P!Pages(ctx))
    BY <1>0, KeysAndPages
  <2>4. hour \in Nat /\ ticks \in Nat /\ ctx.evidence \in SUBSET P!Items
    BY <1>0, HeardAt DEF CtxRecord
  <2>5. /\ rec \in HeardRecord /\ rec.key = P!Key(ctx) /\ rec.cited = ctx.evidence
        /\ rec.pages = P!Pages(ctx) /\ rec.at = hour /\ rec.tick = ticks /\ rec.marked = FALSE
    BY <2>3, <2>4 DEF HeardRecord
  <2> HIDE DEF rec
  <2>6. Heardable(rec)
    <3>1. ASSUME NEW i \in DOMAIN heard, rec.pages = heard[i].pages, rec.pages # {}
          PROVE  FarFrom(i, DedupeHours)
      BY <3>1, <2>5, <1>1 DEF ProInv, GapInv
    <3> QED
      BY <3>1, <2>3, <2>5 DEF Heardable
  <2>7. P!Key(ctx) \in chatLog
    BY <1>1 DEF ProInv, LogInv
  <2>8. \A k \in DOMAIN deliveries : deliveries[k] \in 1..hour /\ deliveries[k] >= deliveries[k]
    BY <1>0, <2>4 DEF ProTypes
  <2>9. /\ heard' \in Seq(HeardRecord)
        /\ \A i \in DOMAIN heard' : heard'[i].at \in 1..hour /\ heard'[i].tick \in 1..ticks
        /\ P!HeardIsLogged' /\ P!AcksAreEarned' /\ MarkInv' /\ P!SpacedOut'
        /\ \A i \in DOMAIN heard' : FarFrom(i, Cooldown)'
    <3>1. /\ stage # "idle" /\ rec.key \in chatLog' /\ chatLog \subseteq chatLog'
          /\ DOMAIN deliveries \subseteq DOMAIN deliveries' /\ ~rec.marked
          /\ \A k \in DOMAIN deliveries : deliveries'[k] >= deliveries[k]
          /\ \A k \in DOMAIN deliveries' : deliveries'[k] \in 1..hour
      BY <1>1, <2>5, <2>7, <2>8
    <3> HIDE DEF ProInv
    <3> QED
      BY <3>1, <1>1, <2>2, <2>6, HeardNow
  <2>10. ProTypes'
    BY <1>0, <1>1, <1>4, <1>5, <2>9 DEF ProTypes, P!Stages
  <2>11. LogInv' /\ OwnInv'
    BY <1>5, <2>9 DEF LogInv, OwnInv, Prep
  <2>12. SentInv'
    <3>1. Len(heard') = Len(heard) + 1 /\ heard'[Len(heard) + 1] = rec /\ Len(heard) \in Nat
      BY <1>0, <2>2, <2>5, HeardGrows, HeardAt
    <3>2. P!Key(ctx)' = P!Key(ctx)
      BY <1>4 DEF P!Key, P!Pages
    <3>3. Len(heard') >= 1 /\ heard'[Len(heard')] = rec
      BY <3>1
    <3> QED
      BY <3>2, <3>3, <2>5, <1>1, <1>4 DEF SentInv
  <2>13. AckInv'
    <3>1. stage' = "ack" => \A p \in ctx'.acks : p[2] \notin {"cited", "told"}
      BY <1>2, <1>3, <1>4
    <3> QED
      BY <3>1, <2>9 DEF AckInv
  <2>14. GapInv'
    BY <1>5, <2>9 DEF GapInv
  <2>15. QuotaInv'
    BY <1>0, <1>1, <1>5, <2>2, <2>5, QuotaOfMessage DEF ProInv
  <2> QED
    BY <2>9, <2>10, <2>11, <2>12, <2>13, <2>14, <2>15 DEF ProInv
<1>7. CASE ~arrives
  <2>1. heard' = heard /\ ~reported /\ stage' = "ack"
    BY <1>1, <1>2, <1>7 DEF P!Dispatch
  <2>2. ProTypes'
    BY <1>0, <1>1, <1>4, <2>1 DEF ProTypes, P!Stages
  <2>3. LogInv' /\ OwnInv' /\ SentInv' /\ MarkInv'
    BY <1>1, <2>1 DEF ProInv, LogInv, OwnInv, SentInv, MarkInv, P!HeardIsLogged, Prep
  <2>4. AckInv'
    <3>1. \A p \in ctx'.acks : p[2] \notin {"cited", "told"}
      BY <1>3, <1>4, <2>1
    <3> QED
      BY <3>1, <1>1, <2>1 DEF ProInv, AckInv, P!AcksAreEarned
  <2>5. GapInv'
    BY <1>1, <2>1 DEF ProInv, GapInv, P!SpacedOut, FarFrom
  <2>6. QuotaInv'
    <3>1. stage \notin Counting /\ stage' \notin Counting /\ ~Reserved'
      BY <1>1, <2>1 DEF Counting, Prep, Reserved
    <3> QED
      BY <3>1, <1>1, <2>1, QuotaStays DEF ProInv
  <2> QED
    BY <2>2, <2>3, <2>4, <2>5, <2>6 DEF ProInv
<1> QED
  BY <1>6, <1>7

\* The delivery of the message of this tick is recorded.
LEMMA MarkStep == ASSUME ProInv, P!MarkSent PROVE ProInv'
<1>0. /\ ProTypes /\ ctx \in CtxRecord /\ Len(heard) \in Nat /\ DOMAIN heard = 1..Len(heard)
      /\ hour \in Nat /\ ticks \in Nat /\ heard \in Seq(HeardRecord)
  BY HeardAt DEF ProInv, ProTypes
<1>1. /\ stage = "sent" /\ stage' = "ack" /\ deliveries' = P!Recorded(P!Key(ctx))
      /\ heard' = [heard EXCEPT ![Len(heard)].marked = TRUE]
      /\ ctx' = [ctx EXCEPT !.acks = P!AckOnSuccess]
      /\ contextAt' \in {hour, contextAt}
      /\ UNCHANGED <<hour, ticks, gone, driftAt, quota, chatLog, lost>>
  BY DEF P!MarkSent, P!MarkDelivery
<1> DEFINE n == Len(heard)
<1>2. /\ n \in DOMAIN heard
      /\ heard[n].key = P!Key(ctx) /\ heard[n].cited = ctx.evidence /\ heard[n].tick = ticks
  BY <1>0, <1>1 DEF ProInv, SentInv
<1>3. PICK rec : rec = [heard[n] EXCEPT !.marked = TRUE]
  OBVIOUS
<1>4. heard[n] \in HeardRecord
  BY <1>0, <1>2
<1>5. /\ rec \in HeardRecord /\ rec.key = heard[n].key /\ rec.cited = heard[n].cited
      /\ rec.pages = heard[n].pages /\ rec.at = heard[n].at /\ rec.tick = heard[n].tick
      /\ rec.drift = heard[n].drift /\ rec.marked = TRUE
  BY <1>3, <1>4 DEF HeardRecord
<1> HIDE DEF n
<1>6. heard' = [heard EXCEPT ![n] = rec]
  BY <1>1, <1>3 DEF n
<1>7. heard' \in Seq(HeardRecord) /\ DOMAIN heard' = DOMAIN heard
  BY <1>0, <1>2, <1>5, <1>6
<1>8. /\ \A i \in DOMAIN heard : /\ heard'[i].key = heard[i].key /\ heard'[i].cited = heard[i].cited
                                 /\ heard'[i].pages = heard[i].pages /\ heard'[i].at = heard[i].at
                                 /\ heard'[i].tick = heard[i].tick /\ heard'[i].drift = heard[i].drift
                                 /\ (i # n => heard'[i].marked = heard[i].marked)
  <2>1. ASSUME NEW i \in DOMAIN heard
        PROVE  /\ heard'[i].key = heard[i].key /\ heard'[i].cited = heard[i].cited
               /\ heard'[i].pages = heard[i].pages /\ heard'[i].at = heard[i].at
               /\ heard'[i].tick = heard[i].tick /\ heard'[i].drift = heard[i].drift
               /\ (i # n => heard'[i].marked = heard[i].marked)
    <3>1. CASE i = n
      <4>1. heard'[n] = rec
        BY <1>0, <1>2, <1>6
      <4> QED
        BY <3>1, <4>1, <1>5
    <3>2. CASE i # n
      <4>1. heard'[i] = heard[i]
        BY <3>2, <1>0, <1>6
      <4> QED
        BY <4>1
    <3> QED
      BY <3>1, <3>2
  <2> QED
    BY <2>1
<1>9. /\ P!AckOnSuccess \in SUBSET (P!Items \X AckKinds)
      /\ \A p \in P!AckOnSuccess : p[2] \in {"cited", "told"} => p[1] \in ctx.evidence
  BY <1>0, AcksTyped
<1>10. /\ ctx' \in CtxRecord /\ ctx'.acks = P!AckOnSuccess
       /\ ctx'.interesting = ctx.interesting /\ ctx'.discarded = ctx.discarded
  BY <1>0, <1>1, <1>9 DEF CtxRecord
<1>11. /\ DOMAIN deliveries' = DOMAIN deliveries \cup {P!Key(ctx)} /\ deliveries'[P!Key(ctx)] = hour
       /\ \A k \in DOMAIN deliveries : deliveries'[k] >= deliveries[k]
       /\ \A k \in DOMAIN deliveries' : deliveries'[k] \in 1..hour
  BY <1>0, <1>1, DeliveryRecorded
<1>12. ProTypes'
  <2>1. \A i \in DOMAIN heard' : heard'[i].at \in 1..hour /\ heard'[i].tick \in 1..ticks
    BY <1>0, <1>7, <1>8 DEF ProTypes
  <2>2. contextAt' \in 0..hour
    BY <1>0, <1>1 DEF ProTypes
  <2> QED
    BY <2>1, <2>2, <1>0, <1>1, <1>7, <1>10, <1>11 DEF ProTypes, P!Stages
<1>13. LogInv'
  BY <1>1, <1>7, <1>8 DEF ProInv, LogInv, P!HeardIsLogged
<1>14. SentInv' /\ OwnInv'
  BY <1>1 DEF SentInv, OwnInv, Prep
<1>15. AckInv'
  <2>1. ASSUME NEW i, WasCited(i) PROVE WasCited(i)'
    BY <2>1, <1>7, <1>8 DEF WasCited
  <2>2. P!AcksAreEarned'
    BY <1>1, <2>1 DEF ProInv, AckInv, P!AcksAreEarned, WasCited
  <2>3. \A i \in ctx.evidence : WasCited(i)
    BY <1>2 DEF WasCited
  <2> QED
    BY <2>1, <2>2, <2>3, <1>9, <1>10 DEF AckInv
<1>16. MarkInv'
  <2>1. ASSUME NEW i \in DOMAIN heard
        PROVE  /\ heard'[i].marked => /\ heard'[i].key \in DOMAIN deliveries'
                                      /\ deliveries'[heard'[i].key] >= heard'[i].at
               /\ heard'[i].pages # {} => heard'[i].key = heard'[i].pages
    <3>0. /\ heard[i].marked => /\ heard[i].key \in DOMAIN deliveries
                                /\ deliveries[heard[i].key] >= heard[i].at
          /\ heard[i].pages # {} => heard[i].key = heard[i].pages
      BY DEF ProInv, MarkInv
    <3>1. heard[i].at \in 1..hour
      BY <1>0, HeardAt
    <3>2. CASE i = n
      BY <3>0, <3>1, <3>2, <1>0, <1>2, <1>8, <1>11
    <3>3. CASE i # n
      <4>1. PICK k : k = heard[i].key
        OBVIOUS
      <4>2. ASSUME heard[i].marked PROVE k \in DOMAIN deliveries' /\ deliveries'[k] >= heard[i].at
        <5>1. k \in DOMAIN deliveries /\ deliveries[k] \in 1..hour /\ deliveries[k] >= heard[i].at
          BY <4>1, <4>2, <3>0, <1>0 DEF ProTypes
        <5>2. k \in DOMAIN deliveries' /\ deliveries'[k] \in 1..hour /\ deliveries'[k] >= deliveries[k]
          BY <5>1, <1>11
        <5> QED
          BY <5>1, <5>2, <3>1, <1>0
      <4> QED
        BY <4>1, <4>2, <3>0, <3>3, <1>8
    <3> QED
      BY <3>2, <3>3
  <2> QED
    BY <2>1, <1>7 DEF MarkInv
<1>17. GapInv'
  <2>1. P!SpacedOut'
    <3>1. ASSUME NEW i \in DOMAIN heard, NEW j \in DOMAIN heard, i < j PROVE i # n
      BY <3>1, <1>0 DEF n
    <3> QED
      BY <3>1, <1>7, <1>8 DEF ProInv, GapInv, P!SpacedOut
  <2>2. \A i \in DOMAIN heard' : FarFrom(i, Cooldown)'
    <3>1. ASSUME NEW i \in DOMAIN heard PROVE FarFrom(i, Cooldown)'
      <4>1. CASE i = n
        BY <4>1, <1>1, <1>2, <1>8 DEF FarFrom
      <4>2. CASE i # n
        BY <4>2, <1>1, <1>8 DEF ProInv, GapInv, FarFrom
      <4> QED
        BY <4>1, <4>2
    <3> QED
      BY <3>1, <1>7
  <2> QED
    BY <2>1, <2>2, <1>1 DEF GapInv
<1>18. QuotaInv'
  <2>1. ASSUME NEW CONSTANT d PROVE TicksOn(d)' = TicksOn(d)
    <3>1. ASSUME NEW x \in TicksOn(d)' PROVE x \in TicksOn(d)
      BY <3>1, <1>1, <1>7, <1>8 DEF TicksOn
    <3>2. ASSUME NEW x \in TicksOn(d) PROVE x \in TicksOn(d)'
      BY <3>2, <1>1, <1>7, <1>8 DEF TicksOn
    <3> QED
      BY <3>1, <3>2
  <2>2. PICK day \in Nat : day = P!Today
    BY <1>0, HeardAt
  <2>3. P!Today' = day /\ P!Used' = P!Used
    BY <1>1, <2>2 DEF P!Today, P!Used
  <2>4. TicksOn(P!Today)' = TicksOn(day)'
    BY <1>1, <2>2 DEF TicksOn, P!Today
  <2>5. TicksOn(day)' = TicksOn(day)
    BY <2>1
  <2>6. Cardinality(TicksOn(P!Today)') <= P!Used'
    BY <1>1, <2>2, <2>3, <2>4, <2>5 DEF ProInv, QuotaInv, Counting, Prep
  <2>7. \A d \in Nat : Cardinality(TicksOn(d)') <= QuotaMax
    <3>1. ASSUME NEW d \in Nat PROVE Cardinality(TicksOn(d)') <= QuotaMax
      <4>1. TicksOn(d)' = TicksOn(d)
        BY <2>1
      <4> QED
        BY <4>1 DEF ProInv, QuotaInv
    <3> QED
      BY <3>1
  <2>8. stage' \notin Counting /\ ~Reserved'
    BY <1>1 DEF Counting, Prep, Reserved
  <2> QED
    BY <2>6, <2>7, <2>8 DEF QuotaInv
<1> QED
  BY <1>12, <1>13, <1>14, <1>15, <1>16, <1>17, <1>18 DEF ProInv

\* The sources are told.
LEMMA AckStep == ASSUME ProInv, NEW reach \in SUBSET ctx.acks, P!Ack(reach) PROVE ProInv'
<1>0. ProTypes /\ ctx \in CtxRecord
  BY DEF ProInv, ProTypes
<1>1. /\ stage = "ack" /\ stage' = "idle" /\ ctx' = P!Fresh
      /\ gone' = [i \in P!Items |-> IF \E p \in reach : p[1] = i
                                    THEN (CHOOSE p \in reach : p[1] = i)[2] ELSE gone[i]]
      /\ UNCHANGED <<hour, ticks, deliveries, contextAt, driftAt, quota, chatLog, heard, lost>>
  BY DEF P!Ack
<1>2. ctx.acks \subseteq P!Items \X AckKinds
  BY <1>0 DEF CtxRecord
<1>3. ASSUME NEW i \in P!Items
      PROVE  gone'[i] = gone[i] \/ \E p \in ctx.acks : p[1] = i /\ p[2] = gone'[i]
  <2>1. CASE \E p \in reach : p[1] = i
    <3>1. PICK p \in reach : p = (CHOOSE q \in reach : q[1] = i) /\ p[1] = i
      BY <2>1
    <3>2. gone'[i] = p[2]
      BY <1>1, <2>1, <3>1
    <3> QED
      BY <3>1, <3>2
  <2>2. CASE ~\E p \in reach : p[1] = i
    BY <2>2, <1>1
  <2> QED
    BY <2>1, <2>2
<1>4. gone' \in [P!Items -> AckKinds \cup {"no"}]
  <2>1. \A i \in P!Items : gone'[i] \in AckKinds \cup {"no"}
    BY <1>0, <1>2, <1>3 DEF ProTypes
  <2> QED
    BY <2>1, <1>1
<1>5. ProTypes'
  BY <1>0, <1>1, <1>4, FreshContext DEF ProTypes, P!Stages
<1>6. LogInv' /\ SentInv' /\ MarkInv' /\ OwnInv'
  BY <1>1 DEF ProInv, LogInv, SentInv, MarkInv, OwnInv, P!HeardIsLogged, Prep
<1>7. AckInv'
  <2>1. ASSUME NEW i \in P!Items, gone'[i] \in {"cited", "told"}
        PROVE  \E h \in DOMAIN heard : i \in heard[h].cited
    <3>1. CASE gone'[i] = gone[i]
      BY <2>1, <3>1 DEF ProInv, AckInv, P!AcksAreEarned
    <3>2. CASE \E p \in ctx.acks : p[1] = i /\ p[2] = gone'[i]
      BY <2>1, <3>2, <1>1 DEF ProInv, AckInv, WasCited
    <3> QED
      BY <3>1, <3>2, <1>3
  <2> QED
    BY <2>1, <1>1 DEF AckInv, P!AcksAreEarned
<1>8. GapInv'
  BY <1>1 DEF ProInv, GapInv, P!SpacedOut
<1>9. QuotaInv'
  <2>1. stage \notin Counting /\ stage' \notin Counting /\ ~Reserved'
    BY <1>1 DEF Counting, Prep, Reserved
  <2> QED
    BY <2>1, <1>1, QuotaStays DEF ProInv
<1> QED
  BY <1>5, <1>6, <1>7, <1>8, <1>9 DEF ProInv

LEMMA DriftPushStep ==
    ASSUME ProInv, NEW text \in Texts, NEW arrives \in BOOLEAN, NEW reported \in BOOLEAN,
           P!DriftPush(text, arrives, reported)
    PROVE  ProInv'
<1>0. /\ ProTypes /\ ctx \in CtxRecord /\ ctx.interesting \intersect ctx.discarded = {}
      /\ hour \in Nat /\ ticks \in Nat
  BY HeardAt DEF ProInv, ProTypes
<1>1. /\ stage = "drift" /\ stage' = "drift" /\ (reported => arrives)
      /\ chatLog' = chatLog \union {{text}}
      /\ deliveries' = IF reported THEN P!Recorded({text}) ELSE deliveries
      /\ ctx' = [ctx EXCEPT !.pushes = @ + 1, !.sent = reported]
      /\ UNCHANGED <<hour, ticks, gone, contextAt, driftAt, quota, lost>>
  BY DEF P!DriftPush, P!DriftMarks
<1>2. ctx' \in CtxRecord /\ ctx'.interesting \intersect ctx'.discarded = {}
  <2>1. PICK n \in Nat : n = ctx.pushes + 1
    <3>1. ctx.pushes \in Nat
      BY <1>0 DEF CtxRecord
    <3>2. ctx.pushes + 1 \in Nat
      BY <3>1
    <3> QED
      BY <3>2, Zenon
  <2>2. ctx' = [ctx EXCEPT !.pushes = n, !.sent = reported]
    BY <1>1, <2>1
  <2> QED
    BY <1>0, <2>2 DEF CtxRecord
<1>3. /\ DOMAIN deliveries \subseteq DOMAIN deliveries'
      /\ \A k \in DOMAIN deliveries : deliveries'[k] >= deliveries[k]
      /\ \A k \in DOMAIN deliveries' : deliveries'[k] \in 1..hour
      /\ reported => {text} \in DOMAIN deliveries' /\ deliveries'[{text}] = hour
  <2>1. CASE reported
    BY <2>1, <1>0, <1>1, DeliveryRecorded
  <2>2. CASE ~reported
    <3>1. \A k \in DOMAIN deliveries : deliveries[k] \in 1..hour /\ deliveries[k] >= deliveries[k]
      BY <1>0 DEF ProTypes
    <3> QED
      BY <2>2, <3>1, <1>1
  <2> QED
    BY <2>1, <2>2
<1>4. CASE arrives
  <2>1. PICK b \in BOOLEAN : b = (stage = "drift")
    <3>1. (stage = "drift") \in BOOLEAN
      OBVIOUS
    <3> QED
      BY <3>1, Zenon
  <2>2. b = TRUE
    BY <2>1, <1>1
  <2> DEFINE rec == [key |-> {text}, cited |-> {}, pages |-> {}, at |-> hour,
                     tick |-> ticks, drift |-> b, marked |-> reported]
  <2>3. heard' = Append(heard, rec)
    BY <1>4, <2>1 DEF P!DriftPush, P!Hear
  <2>4. {text} \in SUBSET Names
    BY DEF Names
  <2>5. /\ rec \in HeardRecord /\ rec.key = {text} /\ rec.cited = {} /\ rec.pages = {}
        /\ rec.at = hour /\ rec.tick = ticks /\ rec.marked = reported /\ rec.drift = TRUE
    BY <2>2, <2>4, <1>0 DEF HeardRecord
  <2> HIDE DEF rec
  <2>6. Heardable(rec)
    BY <2>5 DEF Heardable
  <2>7. /\ heard' \in Seq(HeardRecord)
        /\ \A i \in DOMAIN heard' : heard'[i].at \in 1..hour /\ heard'[i].tick \in 1..ticks
        /\ P!HeardIsLogged' /\ P!AcksAreEarned' /\ MarkInv' /\ P!SpacedOut'
        /\ \A i \in DOMAIN heard' : FarFrom(i, Cooldown)'
    <3>1. /\ stage # "idle" /\ rec.key \in chatLog' /\ chatLog \subseteq chatLog'
          /\ (rec.marked => rec.key \in DOMAIN deliveries' /\ deliveries'[rec.key] = hour)
      BY <1>1, <1>3, <2>5
    <3> HIDE DEF ProInv
    <3> QED
      BY <3>1, <1>1, <1>3, <2>3, <2>6, HeardNow
  <2>8. ProTypes'
    BY <1>0, <1>1, <1>2, <1>3, <2>7 DEF ProTypes, P!Stages
  <2>9. LogInv' /\ SentInv'
    BY <1>1, <2>7 DEF LogInv, SentInv
  <2>10. AckInv' /\ GapInv'
    BY <1>1, <2>7 DEF AckInv, GapInv
  <2>11. OwnInv'
    <3>1. /\ DOMAIN heard' = DOMAIN heard \cup {Len(heard) + 1} /\ heard'[Len(heard) + 1] = rec
          /\ \A i \in DOMAIN heard : heard'[i] = heard[i]
      BY <1>0, <2>3, <2>5, HeardGrows
    <3>2. \A i \in DOMAIN heard : heard[i].tick = ticks => heard[i].drift
      BY <1>1 DEF ProInv, OwnInv
    <3> QED
      BY <3>1, <3>2, <2>5, <1>1 DEF OwnInv, Prep
  <2>12. QuotaInv'
    BY <1>0, <1>1, <2>3, <2>5, QuotaOfMessage DEF ProInv
  <2> QED
    BY <2>7, <2>8, <2>9, <2>10, <2>11, <2>12 DEF ProInv
<1>5. CASE ~arrives
  <2>1. heard' = heard /\ deliveries' = deliveries
    BY <1>1, <1>5 DEF P!DriftPush
  <2>2. ProTypes'
    BY <1>0, <1>1, <1>2, <2>1 DEF ProTypes, P!Stages
  <2>3. LogInv' /\ SentInv' /\ MarkInv' /\ OwnInv'
    BY <1>1, <2>1 DEF ProInv, LogInv, OwnInv, SentInv, MarkInv, P!HeardIsLogged, Prep
  <2>4. AckInv' /\ GapInv'
    BY <1>1, <2>1 DEF ProInv, AckInv, GapInv, P!AcksAreEarned, P!SpacedOut, FarFrom
  <2>5. QuotaInv'
    <3>1. stage \in Counting /\ stage' \in Counting /\ ~Reserved'
      BY <1>1 DEF Counting, Reserved
    <3> QED
      BY <3>1, <1>1, <2>1, QuotaStays DEF ProInv
  <2> QED
    BY <2>2, <2>3, <2>4, <2>5 DEF ProInv
<1> QED
  BY <1>4, <1>5

LEMMA DriftEndsStep == ASSUME ProInv, P!DriftEnds PROVE ProInv'
<1>0. ProTypes /\ hour \in Nat /\ ticks \in Nat /\ P!Today \in Nat
      /\ quota.day \in Nat /\ quota.used \in 0..QuotaMax /\ QuotaMax \in Nat
  BY HeardAt DEF ProInv
<1>1. /\ stage = "drift" /\ stage' = "idle" /\ ctx' = P!Fresh /\ driftAt' = hour
      /\ UNCHANGED <<hour, ticks, gone, deliveries, contextAt, chatLog, heard, lost>>
  BY DEF P!DriftEnds
<1>2. quota.day = P!Today /\ quota.used < QuotaMax /\ P!Used = quota.used
  BY <1>1 DEF ProInv, QuotaInv, Counting, P!Used
<1>3. quota' = [day |-> P!Today, used |-> quota.used + 1]
  BY <1>2 DEF P!DriftEnds, P!RecordAction
<1>4. /\ quota' \in [day : Nat, used : 0..QuotaMax] /\ quota'.day = P!Today
      /\ quota'.used = quota.used + 1
  BY <1>0, <1>2, <1>3
<1>5. ProTypes'
  <2>1. driftAt' \in 0..hour
    BY <1>0, <1>1
  <2> QED
    BY <2>1, <1>0, <1>1, <1>4, FreshContext DEF ProTypes, P!Stages
<1>6. LogInv' /\ SentInv' /\ MarkInv' /\ OwnInv' /\ AckInv' /\ GapInv'
  BY <1>1 DEF ProInv, LogInv, SentInv, MarkInv, OwnInv, AckInv, GapInv, P!HeardIsLogged,
              P!AcksAreEarned, P!SpacedOut, Prep
<1>7. QuotaInv'
  <2>1. PICK day \in Nat : day = P!Today
    BY <1>0
  <2>2. P!Today' = day /\ P!Used' = quota.used + 1
    BY <1>1, <1>4, <2>1 DEF P!Today, P!Used
  <2>3. \A d \in Nat : TicksOn(d)' = TicksOn(d)
    BY <1>1, TicksKept
  <2>4. TicksOn(P!Today)' = TicksOn(day)
    BY <1>1, <2>1 DEF TicksOn, P!Today
  <2>5. Cardinality(TicksOn(day) \ {ticks}) <= quota.used
    BY <1>1, <2>1 DEF ProInv, QuotaInv, Counting
  <2>6. Cardinality(TicksOn(day)) <= quota.used + 1
    <3>1. /\ Cardinality(TicksOn(day)) \in Nat /\ Cardinality(TicksOn(day) \ {ticks}) \in Nat
          /\ Cardinality(TicksOn(day)) <= Cardinality(TicksOn(day) \ {ticks}) + 1
      BY <1>0, <2>1, TicksCounted
    <3> QED
      BY <3>1, <2>5, <1>0
  <2>7. stage' \notin Counting /\ ~Reserved'
    BY <1>1 DEF Counting, Prep, Reserved
  <2>8. \A d \in Nat : Cardinality(TicksOn(d)) <= QuotaMax
    BY DEF ProInv, QuotaInv
  <2> QED
    BY <2>2, <2>3, <2>4, <2>6, <2>7, <2>8 DEF QuotaInv
<1> QED
  BY <1>5, <1>6, <1>7 DEF ProInv

\* The tick is given up: what its drift was heard to say no longer counts.
LEMMA DiesStep == ASSUME ProInv, P!Dies PROVE ProInv'
<1>0. /\ ProTypes /\ hour \in Nat /\ ticks \in Nat /\ P!Today \in Nat
      /\ quota.day \in Nat /\ quota.used \in 0..QuotaMax /\ QuotaMax \in Nat
  BY HeardAt DEF ProInv
<1>1. /\ stage # "idle" /\ stage' = "idle" /\ ctx' = P!Fresh /\ lost' = lost \union {ticks}
      /\ UNCHANGED <<hour, ticks, gone, deliveries, contextAt, driftAt, quota, chatLog, heard>>
  BY DEF P!Dies
<1>2. ProTypes'
  <2>1. lost' \subseteq 1..ticks
    BY <1>0, <1>1 DEF ProTypes
  <2> QED
    BY <2>1, <1>0, <1>1, FreshContext DEF ProTypes, P!Stages
<1>3. LogInv' /\ SentInv' /\ MarkInv' /\ OwnInv' /\ AckInv' /\ GapInv'
  BY <1>1 DEF ProInv, LogInv, SentInv, MarkInv, OwnInv, AckInv, GapInv, P!HeardIsLogged,
              P!AcksAreEarned, P!SpacedOut, Prep
<1>4. QuotaInv'
  <2>1. PICK day \in Nat : day = P!Today
    BY <1>0
  <2>2. P!Today' = day /\ P!Used' = P!Used /\ TicksOn(P!Today)' = TicksOn(day)'
    BY <1>1, <2>1 DEF P!Today, P!Used, TicksOn
  <2>3. ASSUME NEW CONSTANT d PROVE TicksOn(d)' \subseteq TicksOn(d)
    BY <1>1 DEF TicksOn
  <2>4. ASSUME NEW d \in Nat PROVE Cardinality(TicksOn(d)') <= QuotaMax
    <3>1. PICK U : U = TicksOn(d)'
      OBVIOUS
    <3>2. U \in SUBSET TicksOn(d)
      BY <2>3, <3>1
    <3>3. Cardinality(U) \in Nat /\ Cardinality(U) <= Cardinality(TicksOn(d))
          /\ Cardinality(TicksOn(d)) \in Nat
      BY <1>0, <3>2, TicksCounted
    <3>4. Cardinality(TicksOn(d)) <= QuotaMax
      BY DEF ProInv, QuotaInv
    <3> QED
      BY <3>1, <3>3, <3>4, <1>0
  <2>5. PICK T, U : T = TicksOn(day) /\ U = TicksOn(day)'
    OBVIOUS
  <2>6. /\ Cardinality(T) \in Nat /\ U \in SUBSET T
        /\ \A S \in SUBSET T : Cardinality(S) \in Nat /\ Cardinality(S) <= Cardinality(T)
        /\ IsFiniteSet(T) /\ Cardinality(T \ {ticks}) \in Nat
    BY <1>0, <2>3, <2>5, TicksCounted
  <2>7. P!Used \in Nat
    BY <1>0 DEF P!Used
  <2>8. Cardinality(U) <= P!Used
    <3>1. CASE stage \notin Counting
      <4>1. Cardinality(T) <= P!Used
        BY <3>1, <2>1, <2>5 DEF ProInv, QuotaInv
      <4>2. Cardinality(U) \in Nat /\ Cardinality(U) <= Cardinality(T)
        BY <2>6
      <4> QED
        BY <4>1, <4>2, <2>6, <2>7
    <3>2. CASE stage \in Counting
      <4>1. P!Used = quota.used /\ Cardinality(T \ {ticks}) <= quota.used
        BY <3>2, <2>1, <2>5 DEF ProInv, QuotaInv, P!Used
      <4>2. ticks \notin U
        <5>1. CASE stage \in Prep
          <6>1. ticks \notin T
            BY <5>1, <2>5, NotYetCounted DEF ProInv
          <6> QED
            BY <6>1, <2>6
        <5>2. CASE stage = "drift"
          <6>1. \A i \in DOMAIN heard : heard[i].tick = ticks => heard[i].drift
            BY <5>2 DEF ProInv, OwnInv
          <6>2. ticks \notin TicksOn(day)'
            BY <6>1, <1>1 DEF TicksOn
          <6> QED
            BY <6>2, <2>5
        <5> QED
          BY <5>1, <5>2, <3>2 DEF Counting
      <4>3. U \in SUBSET (T \ {ticks}) /\ IsFiniteSet(T \ {ticks})
        BY <4>2, <2>6, FS_Subset
      <4>4. Cardinality(U) <= Cardinality(T \ {ticks}) /\ Cardinality(U) \in Nat
        BY <4>3, <2>6, FS_Subset
      <4> QED
        BY <4>1, <4>4, <2>6, <1>0
    <3> QED
      BY <3>1, <3>2
  <2>9. stage' \notin Counting /\ ~Reserved'
    BY <1>1 DEF Counting, Prep, Reserved
  <2>10. \A d \in Nat : Cardinality(TicksOn(d)') <= QuotaMax
    BY <2>4
  <2>11. Cardinality(TicksOn(P!Today)') <= P!Used'
    BY <2>2, <2>5, <2>8
  <2> QED
    BY <2>9, <2>10, <2>11 DEF QuotaInv
<1> QED
  BY <1>2, <1>3, <1>4 DEF ProInv

\* An hour passes, perhaps into a day of which nothing is heard yet.
LEMMA PassesStep == ASSUME ProInv, P!Passes PROVE ProInv'
<1>0. /\ ProTypes /\ hour \in Nat /\ ticks \in Nat /\ P!Today \in Nat
      /\ quota.day \in Nat /\ quota.used \in 0..QuotaMax /\ QuotaMax \in Nat
      /\ \A i \in DOMAIN heard : heard[i].at \in 1..hour
  BY HeardAt DEF ProInv
<1>1. /\ stage = "idle" /\ hour < MaxHours /\ hour' = hour + 1
      /\ UNCHANGED <<ticks, stage, ctx, gone, deliveries, contextAt, driftAt, quota, chatLog,
                     heard, lost>>
  BY DEF P!Passes
<1>2. ProTypes'
  <2>1. hour' \in 1..MaxHours
    BY <1>0, <1>1, ProConstants
  <2>2. \A k \in DOMAIN deliveries : deliveries[k] \in 1..hour'
    <3>1. \A k \in DOMAIN deliveries : deliveries[k] \in 1..hour
      BY <1>0 DEF ProTypes
    <3> QED
      BY <3>1, <1>0, <1>1
  <2>3. contextAt \in 0..hour' /\ driftAt \in 0..hour'
    BY <1>0, <1>1 DEF ProTypes
  <2>4. \A i \in DOMAIN heard : heard[i].at \in 1..hour' /\ heard[i].tick \in 1..ticks
    <3>1. \A i \in DOMAIN heard : heard[i].tick \in 1..ticks
      BY <1>0 DEF ProTypes
    <3> QED
      BY <3>1, <1>0, <1>1
  <2> QED
    BY <2>1, <2>2, <2>3, <2>4, <1>0, <1>1 DEF ProTypes
<1>3. LogInv' /\ SentInv' /\ MarkInv' /\ OwnInv' /\ AckInv' /\ GapInv'
  BY <1>1 DEF ProInv, LogInv, SentInv, MarkInv, OwnInv, AckInv, GapInv, P!HeardIsLogged,
              P!AcksAreEarned, P!SpacedOut, Prep
<1>4. QuotaInv'
  <2>1. PICK day \in Nat : day = P!Today
    BY <1>0
  <2>2. PICK next \in Nat : next = (hour + 1) \div Day
    BY <1>0, HoursOfADay
  <2>3. P!Today' = next
    BY <1>1, <2>2 DEF P!Today
  <2>4. \A d \in Nat : TicksOn(d)' = TicksOn(d)
    BY <1>1, TicksKept
  <2>5. TicksOn(P!Today)' = TicksOn(next)
    BY <1>1, <2>2 DEF TicksOn, P!Today
  <2>6. CASE next = day
    <3>1. P!Used' = P!Used
      BY <1>1, <2>1, <2>3, <2>6 DEF P!Used
    <3>2. Cardinality(TicksOn(next)) <= P!Used
      BY <1>1, <2>1, <2>6 DEF ProInv, QuotaInv, Counting, Prep
    <3>3. stage' \notin Counting /\ ~Reserved'
      BY <1>1 DEF Counting, Prep, Reserved
    <3>4. \A d \in Nat : Cardinality(TicksOn(d)) <= QuotaMax
      BY DEF ProInv, QuotaInv
    <3> QED
      BY <2>4, <2>5, <3>1, <3>2, <3>3, <3>4 DEF QuotaInv
  <2>7. CASE next # day
    <3>1. day <= next
      BY <1>0, <2>1, <2>2, LaterDay DEF P!Today
    <3>2. ASSUME NEW i \in DOMAIN heard PROVE heard[i].at \div Day # next
      <4>1. PICK at \in 1..hour : at = heard[i].at
        BY <1>0
      <4>2. at \in Nat /\ at <= hour
        BY <4>1, <1>0
      <4>3. at \div Day <= hour \div Day /\ at \div Day \in Nat
        BY <4>2, <1>0, LaterDay, HoursOfADay
      <4>4. hour \div Day = day
        BY <2>1 DEF P!Today
      <4> QED
        BY <4>1, <4>3, <4>4, <3>1, <2>7
    <3>3. TicksOn(next) = {}
      BY <3>2 DEF TicksOn
    <3>4. Cardinality(TicksOn(next)) = 0
      BY <3>3, FS_EmptySet
    <3>5. P!Used' \in Nat
      BY <1>0, <1>1, <2>3 DEF P!Used
    <3>6. stage' \notin Counting /\ ~Reserved'
      BY <1>1 DEF Counting, Prep, Reserved
    <3>7. \A d \in Nat : Cardinality(TicksOn(d)) <= QuotaMax
      BY DEF ProInv, QuotaInv
    <3>8. Cardinality(TicksOn(next)) <= P!Used'
      BY <3>4, <3>5
    <3> QED
      BY <2>4, <2>5, <3>6, <3>7, <3>8 DEF QuotaInv
  <2> QED
    BY <2>6, <2>7
<1> QED
  BY <1>2, <1>3, <1>4 DEF ProInv

LEMMA OffersStep == ASSUME ProInv, NEW i \in P!Items, P!OffersAgain(i) PROVE ProInv'
<1>1. /\ stage = "idle" /\ gone' = [gone EXCEPT ![i] = "no"]
      /\ UNCHANGED <<hour, ticks, stage, ctx, deliveries, contextAt, driftAt, quota, chatLog, heard, lost>>
  BY DEF P!OffersAgain
<1>2. ProTypes'
  BY <1>1 DEF ProInv, ProTypes
<1>3. LogInv' /\ SentInv' /\ MarkInv' /\ OwnInv' /\ GapInv'
  BY <1>1 DEF ProInv, LogInv, SentInv, MarkInv, OwnInv, GapInv, P!HeardIsLogged, P!SpacedOut, Prep
<1>4. AckInv'
  <2>1. \A k \in P!Items : gone'[k] \in {"cited", "told"} => gone[k] \in {"cited", "told"}
    BY <1>1 DEF ProInv, ProTypes
  <2> QED
    BY <2>1, <1>1 DEF ProInv, AckInv, P!AcksAreEarned
<1>5. QuotaInv'
  <2>1. stage \notin Counting /\ stage' \notin Counting /\ ~Reserved'
    BY <1>1 DEF Counting, Prep, Reserved
  <2> QED
    BY <2>1, <1>1, QuotaStays DEF ProInv
<1> QED
  BY <1>2, <1>3, <1>4, <1>5 DEF ProInv

LEMMA ProStart == P!Init => ProInv
<1> SUFFICES ASSUME P!Init PROVE ProInv
  OBVIOUS
<1>1. DOMAIN deliveries = {} /\ DOMAIN heard = {} /\ heard \in Seq(HeardRecord)
  BY DEF P!Init
<1>2. ProTypes
  <2>1. quota \in [day : Nat, used : 0..QuotaMax]
    BY ProConstants DEF P!Init
  <2> QED
    BY <1>1, <2>1, ProConstants, FreshContext DEF P!Init, ProTypes, P!Stages, P!Never
<1>3. LogInv /\ SentInv /\ MarkInv /\ OwnInv /\ GapInv
  BY <1>1 DEF P!Init, LogInv, SentInv, MarkInv, OwnInv, GapInv, P!HeardIsLogged, P!SpacedOut, Prep
<1>4. AckInv
  BY DEF P!Init, AckInv, P!AcksAreEarned
<1>5. QuotaInv
  <2>1. \A d : TicksOn(d) = {}
    BY <1>1 DEF TicksOn
  <2>2. \A d : Cardinality(TicksOn(d)) = 0
    BY <2>1, FS_EmptySet
  <2>3. stage \notin Counting /\ ~Reserved
    BY DEF P!Init, Counting, Prep, Reserved
  <2>4. P!Used \in Nat /\ QuotaMax \in Nat
    BY <1>2, HeardAt DEF P!Used
  <2> QED
    BY <2>2, <2>3, <2>4 DEF QuotaInv
<1> QED
  BY <1>2, <1>3, <1>4, <1>5 DEF ProInv

LEMMA ProStep == ASSUME ProInv, [P!Next]_proVars PROVE ProInv'
<1>1. CASE UNCHANGED proVars
  <2>1. UNCHANGED <<hour, ticks, stage, ctx, gone, deliveries, contextAt, driftAt, quota, chatLog,
                    heard, lost>>
    BY <1>1 DEF proVars
  <2>2. ProTypes'
    BY <2>1 DEF ProInv, ProTypes
  <2>3. LogInv' /\ SentInv' /\ MarkInv' /\ OwnInv' /\ AckInv'
    BY <2>1 DEF ProInv, LogInv, SentInv, MarkInv, OwnInv, AckInv, WasCited, P!HeardIsLogged,
                P!AcksAreEarned, P!Key, P!Pages, Prep
  <2>4. GapInv'
    BY <2>1 DEF ProInv, GapInv, P!SpacedOut, FarFrom, P!Pages
  <2>5. QuotaInv'
    <3>1. Reserved' => Reserved
      BY <2>1 DEF Reserved
    <3> QED
      BY <2>1, <3>1, QuotaStays DEF ProInv
  <2> QED
    BY <2>2, <2>3, <2>4, <2>5 DEF ProInv
<1>2. CASE P!Next
  BY <1>2, TickStep, FetchStep, LoopStep, DecideStep, PostStep, DispatchStep, MarkStep, AckStep,
     DriftPushStep, DriftEndsStep, DiesStep, PassesStep, OffersStep DEF P!Next
<1> QED
  BY <1>1, <1>2

\* What the properties say follows.
LEMMA ProHolds == ProInv => ToldTruly /\ NotTooOften
<1> SUFFICES ASSUME ProInv PROVE ToldTruly /\ NotTooOften
  OBVIOUS
<1>0. ProTypes
  BY DEF ProInv
<1>1. P!ProactiveTypeOK
  <2>1. gone \in [P!Items -> {"no", "cited", "told", "uncited", "declined", "repeated"}]
    <3>1. AckKinds \cup {"no"} = {"no", "cited", "told", "uncited", "declined", "repeated"}
      BY DEF AckKinds
    <3> QED
      BY <1>0, <3>1 DEF ProTypes
  <2>2. {contextAt, driftAt} \subseteq 0..hour /\ quota.used \in 0..QuotaMax
    BY <1>0 DEF ProTypes
  <2> QED
    BY <1>0, <2>1, <2>2 DEF ProTypes, P!ProactiveTypeOK
<1>2. ToldTruly
  BY <1>1 DEF ProInv, LogInv, AckInv, ToldTruly, P!ToldTruly
<1>3. P!QuotaKept
  <2>1. \A S : P!Cardinality(S) = Cardinality(S)
    BY DEF P!Cardinality, Cardinality
  <2>2. ASSUME NEW d \in 0..(MaxHours \div Day)
        PROVE  P!Cardinality({heard[i].tick : i \in {h \in DOMAIN heard :
                    heard[h].at \div Day = d /\ ~(heard[h].drift /\ heard[h].tick \in lost)}})
                 <= QuotaMax
    <3>1. d \in Nat
      BY HoursOfADay, ProConstants
    <3>2. PICK T : T = TicksOn(d)
      OBVIOUS
    <3>3. Cardinality(T) <= QuotaMax
      BY <3>1, <3>2 DEF ProInv, QuotaInv
    <3>4. P!Cardinality(T) <= QuotaMax
      BY <3>3, <2>1
    <3> QED
      BY <3>2, <3>4 DEF TicksOn
  <2> QED
    BY <2>2 DEF P!QuotaKept
<1>4. NotTooOften
  BY <1>3 DEF ProInv, GapInv, NotTooOften, P!NotTooOften
<1> QED
  BY <1>2, <1>4

LEMMA BackRuns == ASSUME [BackNext]_backVars PROVE [P!Next]_proVars
BY DEF BackNext, backVars

\* The invariant of the proactive loop.
THEOREM ProactiveInvariant == BackSpec => []ProInv
<1>1. BackInit => ProInv
  BY ProStart DEF BackInit
<1>2. ProInv /\ [BackNext]_backVars => ProInv'
  BY ProStep, BackRuns
<1> QED
  BY <1>1, <1>2, PTL DEF BackSpec

\* For any number of items, pages, ticks and hours: a source is told that its item was sent
\* only when a message that cites it has reached the user, and what the user heard is in
\* the session (ack_on_success, AgentTick._build_turn_result, handle_proactive_turn).
THEOREM ToldTrulyAlways == BackSpec => []ToldTruly
BY ProactiveInvariant, ProHolds, PTL

\* For any windows and quota: messages of different ticks keep the cooldown, those about
\* the same pages the window of the check for repetitions, once a delivery is recorded,
\* and the ticks of a day that reach the user are within the quota, but for a drift that
\* died (AgentTick.tick, is_delivery_duplicate, record_action).
THEOREM NotTooOftenAlways == BackSpec => []NotTooOften
BY ProactiveInvariant, ProHolds, PTL

===============================================================================
