------------------------ MODULE AgentLifecycle_proofs ------------------------
(***************************************************************************)
(* NoOrphan for every number of requests, faults and restarts.             *)
(*                                                                         *)
(* It is not inductive: what keeps an orphan from being born lies in the   *)
(* operations under way.  A deletion passes from "undeploy" to "unserve"   *)
(* only when the Deployment was there, hence after the create made it, and *)
(* to "erase" only when the Service was, hence after the create's last     *)
(* call: by then nothing can bring either back (Provision).                *)
(***************************************************************************)
EXTENDS AgentLifecycle, TLAPS

Nothing == [deployment |-> "none", service |-> FALSE]

\* Which operations can be at which place
MayBeAt(op, at) ==
    \/ at = "idle" /\ op = "none"
    \/ at \in {"deploy", "expose"} /\ op = "create"
    \/ at \in {"undeploy", "unserve", "erase"} /\ op = "delete"
    \/ at \in {"patch", "patchsvc"} /\ op \in {"start", "restart", "update", "rollout"}
    \/ at = "scale1" /\ op \in {"start", "restart", "rollout"}
    \/ at = "annotate" /\ op \in {"restart", "rollout"}
    \/ at = "scale0" /\ op \in {"stop", "idle"}
    \/ at = "check" /\ op \in {"idle", "rollout"}
    \/ at = "look" /\ op = "refresh"
    \/ at = "read" /\ op = "poll"
    \/ at = "put" /\ op \in {"refresh", "poll"}
    \/ at = "save" /\ op \in Ops \ {"update"}
    \/ at = "invalidate" /\ op \in {"start", "stop", "restart", "delete"}

Writers == {"create", "start", "stop", "idle", "restart", "rollout"}

\* A session is where its operation can be, and what it is about to write is a status.
Sound(s) ==
    /\ s \in Session
    /\ MayBeAt(s.op, s.at)
    /\ s.at \in {"put", "save"} =>
        \/ s.ok = FALSE
        \/ s.op \in Writers
        \/ s.op \in {"refresh", "poll"} /\ s.seen \in Statuses

Provisioning(p) == sess[p].at \in {"deploy", "expose"}
Clean == cluster = Nothing /\ \A p \in Actor : ~Provisioning(p)

Provision ==
    /\ \A p \in Actor :
        /\ sess[p].at = "deploy" => cluster = Nothing
        /\ sess[p].at = "expose" => cluster.service = FALSE
        /\ sess[p].at = "unserve" => /\ cluster.deployment = "none"
                                     /\ \A q \in Actor : sess[q].at # "deploy"
        /\ sess[p].at = "erase" => Clean
    /\ \A p, q \in Actor : Provisioning(p) /\ Provisioning(q) => p = q
    /\ row.status = "absent" => cluster = Nothing /\ \A p \in Actor : sess[p].at = "idle"
    /\ row.status = "gone" => Clean

IInv == TypeOK /\ (\A p \in Actor : Sound(sess[p])) /\ Provision

-----------------------------------------------------------------------------
(* Sessions *)

\* A fresh session is sound.
LEMMA IdleSound == Sound(Idle)
BY DEF Sound, Idle, Session, MayBeAt, Ops, Places, Calls, RowStatuses, Statuses, Readings, NoReading

\* Beginning an operation puts the session where that operation begins.
LEMMA FirstSound ==
    ASSUME NEW op \in Ops, NEW copy \in RowStatuses
    PROVE  LET s == [Idle EXCEPT !.op = op, !.at = First[op], !.copy = copy]
           IN  Sound(s) /\ s.at \notin {"expose", "unserve", "erase"}
                        /\ (s.at = "deploy" => op = "create")
<1>1. First[op] \in Places /\ MayBeAt(op, First[op]) /\ First[op] \notin {"expose", "unserve", "erase", "put", "save"}
      /\ (First[op] = "deploy" => op = "create")
  BY DEF First, Ops, MayBeAt, Places, Calls
<1> QED
  BY <1>1 DEF Sound, Idle, Session, Readings, NoReading, RowStatuses, Statuses

\* Going on, from any place but those that read, keeps the session sound.
LEMMA MovedSound ==
    ASSUME NEW s, Sound(s), s.at \notin {"idle", "look", "read", "erase"}
    PROVE  Sound(Moved(s))
<1> DEFINE to == After(s.op, s.at)
<1>1. /\ to \in Places
      /\ to # "idle" => MayBeAt(s.op, to)
      /\ to # "put"
      /\ to = "save" => s.op \in Writers \/ s.at = "put"
  BY DEF Sound, MayBeAt, After, Places, Calls, Writers, Ops
<1>2. CASE to = "idle"
  BY <1>2, IdleSound DEF Moved, GoesTo
<1>3. CASE to # "idle"
  <2>1. Moved(s) = [s EXCEPT !.at = to]
    BY <1>3 DEF Moved, GoesTo
  <2>2. [s EXCEPT !.at = to] \in Session
    BY <1>1 DEF Sound, Session
  <2>3. /\ [s EXCEPT !.at = to].at = to /\ [s EXCEPT !.at = to].op = s.op
        /\ [s EXCEPT !.at = to].ok = s.ok /\ [s EXCEPT !.at = to].seen = s.seen
    BY DEF Sound, Session
  <2> QED
    BY <1>1, <1>3, <2>1, <2>2, <2>3 DEF Sound
<1> QED
  BY <1>2, <1>3

\* So does the failure of a call.
LEMMA FailedSound ==
    ASSUME NEW s, Sound(s), s.at \in Calls
    PROVE  /\ Sound(Failed(s))
           /\ Failed(s).at \in {"idle", "save", "scale1"}
<1>1. CASE s.op = "start" /\ s.at \in {"patch", "patchsvc"}
  <2>1. Failed(s) = [s EXCEPT !.at = "scale1"]
    BY <1>1 DEF Failed
  <2> QED
    BY <1>1, <2>1 DEF Sound, Session, MayBeAt, Places, Calls
<1>2. CASE s.op \in {"restart", "update", "rollout", "idle"}
  <2>1. Failed(s) = Idle
    BY <1>2 DEF Failed
  <2> QED
    BY <2>1, IdleSound DEF Idle
<1>3. CASE ~(s.op = "start" /\ s.at \in {"patch", "patchsvc"})
           /\ s.op \notin {"restart", "update", "rollout", "idle"}
  <2>1. Failed(s) = [s EXCEPT !.at = "save", !.ok = FALSE]
    BY <1>3 DEF Failed
  <2>2. s.op \in Ops \ {"update"}
    BY <1>3 DEF Sound, MayBeAt, Calls, Ops
  <2> QED
    BY <2>1, <2>2 DEF Sound, Session, MayBeAt, Places, Calls
<1> QED
  BY <1>1, <1>2, <1>3

\* What the successor of a place can be, for the places Provision speaks of.
LEMMA MovedTo ==
    ASSUME NEW s, Sound(s), s.at \notin {"idle", "look", "read", "erase"}
    PROVE  /\ Moved(s).at # "deploy"
           /\ Moved(s).at = "expose" => s.at = "deploy"
           /\ Moved(s).at = "unserve" => s.at = "undeploy"
           /\ Moved(s).at = "erase" => s.at = "unserve"
<1>1. /\ After(s.op, s.at) # "deploy"
      /\ After(s.op, s.at) = "expose" => s.at = "deploy"
      /\ After(s.op, s.at) = "unserve" => s.at = "undeploy"
      /\ After(s.op, s.at) = "erase" => s.at = "unserve"
  BY DEF Sound, MayBeAt, After
<1>2. Moved(s).at = After(s.op, s.at)
  BY DEF Moved, GoesTo, Idle, Sound, Session
<1> QED
  BY <1>1, <1>2

-----------------------------------------------------------------------------
(* Steps *)

\* A step by which nothing appears in the cluster and no session comes to a
\* place Provision speaks of keeps it.
LEMMA QuietStep ==
    ASSUME IInv, cluster' \in Cluster,
           cluster.deployment = "none" => cluster'.deployment = "none",
           cluster.service = FALSE => cluster'.service = FALSE,
           \A q \in Actor : sess'[q].at \in {"deploy", "expose", "unserve", "erase"}
                                => sess'[q].at = sess[q].at,
           row'.status \in {"absent", "gone"} => row'.status = row.status,
           row'.status = "absent" => \A q \in Actor : sess'[q].at = "idle"
    PROVE  Provision'
<1>1. cluster = Nothing => cluster' = Nothing
  BY DEF Nothing, Cluster
<1> QED
  BY <1>1 DEF IInv, Provision, Provisioning, Clean, Nothing

\* One actor's session changes.
LEMMA OneSession ==
    ASSUME IInv, NEW p \in Actor, NEW s, sess' = [sess EXCEPT ![p] = s], Sound(s)
    PROVE  /\ sess' \in [Actor -> Session]
           /\ \A q \in Actor : Sound(sess'[q])
           /\ sess'[p] = s
           /\ \A q \in Actor : q # p => sess'[q] = sess[q]
BY DEF IInv, TypeOK, Sound

\* What the calls do to the cluster
LEMMA EffectsOf ==
    ASSUME NEW call \in Calls, NEW c \in Cluster, NEW d \in Effects(call, c)
    PROVE  /\ d \in Cluster
           /\ call # "deploy" => (c.deployment = "none" => d.deployment = "none")
           /\ call # "expose" => (c.service = FALSE => d.service = FALSE)
           /\ call = "deploy" => d.service = c.service
           /\ call = "expose" => d.deployment = c.deployment
           /\ call = "undeploy" => c.deployment # "none" /\ d.deployment = "none"
           /\ call = "unserve" => c.service = TRUE /\ d.service = FALSE
<1>1. CASE call \in {"deploy", "expose"}
  BY <1>1 DEF Effects, Cluster, Deployments
<1>2. CASE call \in {"undeploy", "unserve"}
  BY <1>2 DEF Effects, Cluster, Deployments
<1>3. CASE call \in {"patch", "patchsvc"}
  BY <1>3 DEF Effects, Cluster, Deployments
<1>4. CASE call \in {"scale1", "annotate", "scale0"}
  BY <1>4 DEF Effects, Cluster, Deployments
<1> QED
  BY <1>1, <1>2, <1>3, <1>4 DEF Calls

\* The initial state satisfies the inductive invariant.
THEOREM InitIInv == Init => IInv
<1> SUFFICES ASSUME Init PROVE IInv
  OBVIOUS
<1>1. \A p \in Actor : sess[p] = Idle
  BY DEF Init
<1>2. \A p \in Actor : Sound(sess[p])
  BY <1>1, IdleSound
<1>3. TypeOK
  <2>1. sess \in [Actor -> Session]
    BY IdleSound DEF Init, Sound
  <2>2. row \in [status : RowStatuses, recent : BOOLEAN] /\ cluster \in Cluster
        /\ cache \in Readings /\ busy \in BOOLEAN
    BY DEF Init, RowStatuses, Cluster, Deployments, Readings, NoReading
  <2>3. faults \in 0 .. MaxFaults /\ crashes \in 0 .. MaxCrashes
    BY BoundsAssumption DEF Init
  <2> QED
    BY <2>1, <2>2, <2>3 DEF TypeOK
<1>4. Provision
  BY <1>1 DEF Init, Provision, Provisioning, Clean, Nothing, Idle
<1> QED
  BY <1>2, <1>3, <1>4 DEF IInv

LEMMA BeginKeeps ==
    ASSUME IInv, NEW p \in Actor, NEW op \in Ops, Begin(p, op)
    PROVE  IInv'
<1> DEFINE loaded == CASE op = "create" -> "creating"
                       [] op = "delete" -> "deleting"
                       [] OTHER         -> row.status
           s == [Idle EXCEPT !.op = op, !.at = First[op], !.copy = loaded]
<1>1. /\ row' = [status |-> loaded, recent |-> row.recent \/ op = "create"]
      /\ sess' = [sess EXCEPT ![p] = s]
      /\ UNCHANGED <<cluster, cache, busy, faults, crashes>>
      /\ May(op)
  BY DEF Begin
<1>2. loaded \in Statuses /\ loaded \in RowStatuses
  <2>1. row.status \in RowStatuses
    BY DEF IInv, TypeOK
  <2>2. op # "create" => Present
    BY <1>1 DEF May
  <2>3. CASE op = "create"
    BY <2>3 DEF Statuses, RowStatuses
  <2>4. CASE op = "delete"
    BY <2>4 DEF Statuses, RowStatuses
  <2>5. CASE op # "create" /\ op # "delete"
    BY <2>2, <2>5 DEF Present, RowStatuses
  <2> QED
    BY <2>3, <2>4, <2>5
<1> HIDE DEF loaded
<1>3. Sound(s) /\ s.at \notin {"expose", "unserve", "erase"} /\ (s.at = "deploy" => op = "create")
  BY <1>2, FirstSound
<1> HIDE DEF s
<1>4. /\ sess' \in [Actor -> Session]
      /\ \A q \in Actor : Sound(sess'[q])
      /\ sess'[p] = s
      /\ \A q \in Actor : q # p => sess'[q] = sess[q]
  BY <1>1, <1>3, OneSession
<1>5. row'.status = loaded /\ row'.recent \in BOOLEAN /\ row' \in [status : RowStatuses, recent : BOOLEAN]
  BY <1>1, <1>2 DEF IInv, TypeOK
<1>6. TypeOK'
  BY <1>1, <1>4, <1>5 DEF IInv, TypeOK
<1>7. Provision'
  <2>1. row'.status \notin {"absent", "gone"}
    BY <1>2, <1>5 DEF Statuses
  <2>2. CASE op = "create"
    <3>1. row.status = "absent"
      BY <2>2, <1>1 DEF May
    <3>2. cluster' = Nothing /\ \A q \in Actor : sess[q].at = "idle"
      BY <1>1, <3>1 DEF IInv, Provision
    <3>3. \A q \in Actor : q # p => sess'[q].at = "idle"
      BY <1>4, <3>2
    <3> QED
      BY <1>3, <1>4, <2>1, <3>2, <3>3 DEF Provision, Provisioning, Clean
  <2>3. CASE op # "create"
    <3>1. \A q \in Actor : sess'[q].at \in {"deploy", "expose", "unserve", "erase"}
                                => sess'[q].at = sess[q].at
      BY <1>3, <1>4, <2>3
    <3>2. cluster' = cluster /\ cluster \in Cluster
      BY <1>1 DEF IInv, TypeOK
    <3> QED
      BY <2>1, <3>1, <3>2, QuietStep
  <2> QED
    BY <2>2, <2>3
<1> QED
  BY <1>4, <1>6, <1>7 DEF IInv

\* A call
LEMMA CallKeeps ==
    ASSUME IInv, NEW p \in Actor, Call(p)
    PROVE  IInv'
<1> DEFINE s == sess[p]
           result == Effects(s.at, cluster)
<1>1. /\ s.at \in Calls
      /\ UNCHANGED <<row, cache, busy, crashes>>
      /\ \/ /\ cluster' \in result
            /\ sess' = [sess EXCEPT ![p] = Moved(s)]
            /\ UNCHANGED faults
         \/ /\ sess' = [sess EXCEPT ![p] = Failed(s)]
            /\ UNCHANGED <<cluster, faults>>
         \/ /\ faults < MaxFaults /\ faults' = faults + 1
            /\ cluster' \in result \cup {cluster}
            /\ sess' = [sess EXCEPT ![p] = Failed(s)]
  BY DEF Call, CallOf
<1>2. Sound(s) /\ s.at \notin {"idle", "look", "read", "erase"} /\ cluster \in Cluster
  BY <1>1 DEF IInv, TypeOK, Calls
<1>3. \A d \in result :
        /\ d \in Cluster
        /\ s.at # "deploy" => (cluster.deployment = "none" => d.deployment = "none")
        /\ s.at # "expose" => (cluster.service = FALSE => d.service = FALSE)
        /\ s.at = "deploy" => d.service = cluster.service
        /\ s.at = "expose" => d.deployment = cluster.deployment
        /\ s.at = "undeploy" => cluster.deployment # "none" /\ d.deployment = "none"
        /\ s.at = "unserve" => cluster.service = TRUE /\ d.service = FALSE
  BY <1>1, <1>2, EffectsOf
<1>4. cluster' \in Cluster /\ faults' \in 0 .. MaxFaults
  <2>1. faults \in 0 .. MaxFaults /\ MaxFaults \in Nat
    BY BoundsAssumption DEF IInv, TypeOK
  <2> HIDE DEF result
  <2>2. cluster' \in Cluster
    BY <1>1, <1>2, <1>3
  <2>3. faults' = faults \/ (faults < MaxFaults /\ faults' = faults + 1)
    BY <1>1
  <2>4. faults' \in 0 .. MaxFaults
    BY <2>1, <2>3
  <2> QED
    BY <2>2, <2>4
<1>5. Sound(Moved(s)) /\ Sound(Failed(s))
  BY <1>1, <1>2, MovedSound, FailedSound
<1>6. /\ sess' \in [Actor -> Session]
      /\ \A q \in Actor : Sound(sess'[q])
      /\ \A q \in Actor : q # p => sess'[q] = sess[q]
      /\ sess'[p] = Moved(s) \/ sess'[p] = Failed(s)
  <2> HIDE DEF s, result
  <2>1. CASE sess' = [sess EXCEPT ![p] = Moved(s)]
    BY <2>1, <1>5, OneSession
  <2>2. CASE sess' = [sess EXCEPT ![p] = Failed(s)]
    BY <2>2, <1>5, OneSession
  <2> QED
    BY <1>1, <2>1, <2>2
<1>7. TypeOK'
  BY <1>1, <1>4, <1>6 DEF IInv, TypeOK
<1>8. row.status # "absent"
  <2>1. s.at # "idle"
    BY <1>2
  <2> QED
    BY <2>1 DEF IInv, Provision
<1>9. Failed(s).at \in {"idle", "save", "scale1"}
  BY <1>1, <1>2, FailedSound
<1>10. /\ Moved(s).at # "deploy"
       /\ Moved(s).at = "expose" => s.at = "deploy"
       /\ Moved(s).at = "unserve" => s.at = "undeploy"
       /\ Moved(s).at = "erase" => s.at = "unserve"
  BY <1>2, MovedTo
<1> HIDE DEF s, result
<1>11. CASE s.at = "deploy"
  <2>1. /\ cluster = Nothing
        /\ \A q \in Actor : q # p => ~Provisioning(q)
        /\ \A q \in Actor : sess[q].at \notin {"unserve", "erase"}
        /\ row.status # "gone"
    BY <1>11 DEF IInv, Provision, Provisioning, Clean, s
  <2>2. cluster'.service = FALSE
    <3>1. cluster' = cluster \/ cluster' \in result
      BY <1>1
    <3>2. cluster'.service = cluster.service
      BY <1>3, <1>11, <3>1
    <3>3. cluster.service = FALSE
      BY <2>1 DEF Nothing
    <3> QED
      BY <3>2, <3>3
  <2>3. sess'[p].at \notin {"deploy", "unserve", "erase"}
    BY <1>6, <1>9, <1>10, <1>11
  <2>4. \A q \in Actor : sess'[q].at \notin {"deploy", "unserve", "erase"}
    BY <1>6, <2>1, <2>3 DEF Provisioning
  <2>5. \A q \in Actor : q # p => ~Provisioning(q)'
    BY <1>6, <2>1 DEF Provisioning
  <2>6. row'.status \notin {"absent", "gone"}
    BY <1>1, <1>8, <2>1
  <2>7. Provision'
    BY <2>2, <2>4, <2>5, <2>6 DEF Provision
  <2> QED
    BY <1>6, <1>7, <2>7 DEF IInv
<1>12. CASE s.at = "expose"
  <2>1. /\ \A q \in Actor : q # p => ~Provisioning(q)
        /\ \A q \in Actor : sess[q].at # "erase"
        /\ row.status # "gone"
    BY <1>12 DEF IInv, Provision, Provisioning, Clean, s
  <2>2. cluster.deployment = "none" => cluster'.deployment = "none"
    BY <1>1, <1>3, <1>12
  <2>3. sess'[p].at \notin {"deploy", "expose", "unserve", "erase"}
    BY <1>6, <1>9, <1>10, <1>12
  <2>4. \A q \in Actor : ~Provisioning(q)' /\ sess'[q].at # "erase"
                         /\ (sess'[q].at = "unserve" => sess[q].at = "unserve")
    BY <1>6, <2>1, <2>3 DEF Provisioning
  <2>5. row'.status \notin {"absent", "gone"}
    BY <1>1, <1>8, <2>1
  <2>6. Provision'
    BY <2>2, <2>4, <2>5 DEF IInv, Provision, Provisioning
  <2> QED
    BY <1>6, <1>7, <2>6 DEF IInv
<1>13. CASE s.at \notin {"deploy", "expose"} /\ sess'[p].at \notin {"unserve", "erase"}
  <2>1. /\ cluster.deployment = "none" => cluster'.deployment = "none"
        /\ cluster.service = FALSE => cluster'.service = FALSE
    BY <1>1, <1>3, <1>13
  <2>2. sess'[p].at \notin {"deploy", "expose", "unserve", "erase"}
    BY <1>6, <1>9, <1>10, <1>13
  <2>3. \A q \in Actor : sess'[q].at \in {"deploy", "expose", "unserve", "erase"}
                            => sess'[q].at = sess[q].at
    BY <1>6, <2>2
  <2>4. Provision'
    BY <1>1, <1>4, <1>8, <2>1, <2>3, QuietStep
  <2> QED
    BY <1>6, <1>7, <2>4 DEF IInv
<1>14. CASE sess'[p].at = "unserve"
  <2>1. s.at = "undeploy" /\ cluster' \in result /\ sess'[p] = Moved(s)
    <3>1. sess'[p] # Failed(s)
      BY <1>9, <1>14
    <3>2. sess' # [sess EXCEPT ![p] = Failed(s)]
      BY <3>1 DEF IInv, TypeOK
    <3> QED
      BY <1>1, <1>6, <1>10, <1>14, <3>1, <3>2
  <2>2. cluster.deployment # "none" /\ cluster'.deployment = "none"
        /\ (cluster.service = FALSE => cluster'.service = FALSE)
    BY <1>3, <2>1
  <2>3. /\ \A q \in Actor : sess[q].at \notin {"deploy", "erase"}
        /\ row.status # "gone"
    BY <2>2 DEF IInv, Provision, Clean, Nothing
  <2>4. \A q \in Actor : sess'[q].at \notin {"deploy", "erase"}
                         /\ (sess'[q].at = "expose" => sess[q].at = "expose")
    BY <1>6, <1>14, <2>3
  <2>5. row'.status \notin {"absent", "gone"}
    BY <1>1, <1>8, <2>3
  <2>6. Provision'
    BY <2>2, <2>4, <2>5 DEF IInv, Provision, Provisioning
  <2> QED
    BY <1>6, <1>7, <2>6 DEF IInv
<1>15. CASE sess'[p].at = "erase"
  <2>1. s.at = "unserve" /\ cluster' \in result /\ sess'[p] = Moved(s)
    <3>1. sess'[p] # Failed(s)
      BY <1>9, <1>15
    <3>2. sess' # [sess EXCEPT ![p] = Failed(s)]
      BY <3>1 DEF IInv, TypeOK
    <3> QED
      BY <1>1, <1>6, <1>10, <1>15, <3>1, <3>2
  <2>2. cluster.deployment = "none" /\ cluster.service = TRUE
    BY <1>3, <2>1 DEF IInv, Provision, s
  <2>3. cluster' = Nothing
    BY <1>3, <1>4, <2>1, <2>2 DEF Cluster, Nothing
  <2>4. \A q \in Actor : sess[q].at \notin {"deploy", "expose"}
    BY <2>1, <2>2 DEF IInv, Provision, s
  <2>5. \A q \in Actor : sess'[q].at \notin {"deploy", "expose"}
    BY <1>6, <1>15, <2>4
  <2>6. row'.status # "absent"
    BY <1>1, <1>8
  <2>7. Provision'
    BY <2>3, <2>5, <2>6 DEF Provision, Provisioning, Clean, Nothing
  <2> QED
    BY <1>6, <1>7, <2>7 DEF IInv
<1> QED
  BY <1>11, <1>12, <1>13, <1>14, <1>15

\* Reading a status, from the cache or from the cluster, and keeping it
LEMMA ReadingKeeps ==
    ASSUME IInv, NEW p \in Actor, Hit(p) \/ Read(p) \/ Put(p)
    PROVE  IInv'
<1>1. PICK s : /\ sess' = [sess EXCEPT ![p] = s]
               /\ Sound(s) /\ s.at \in {"put", "save"}
               /\ cache' \in Readings
               /\ faults' \in 0 .. MaxFaults
               /\ UNCHANGED <<row, cluster, busy, crashes>>
  <2>1. Sound(sess[p]) /\ sess[p] \in Session /\ cache \in Readings /\ faults \in 0 .. MaxFaults
    BY DEF IInv, TypeOK, Sound
  <2>2. CASE Hit(p)
    <3> DEFINE s == [sess[p] EXCEPT !.at = "save", !.seen = cache]
    <3>1. sess' = [sess EXCEPT ![p] = s] /\ UNCHANGED <<row, cluster, cache, busy, faults, crashes>>
      BY <2>2 DEF Hit
    <3>2. s \in Session /\ s.at = "save" /\ s.op = "refresh" /\ s.seen \in Statuses
      BY <2>1, <2>2 DEF Hit, Sound, Session, MayBeAt, Places, Readings
    <3>3. Sound(s)
      BY <3>2 DEF Sound, MayBeAt, Ops
    <3> QED
      BY <2>1, <3>1, <3>2, <3>3
  <2>3. CASE Read(p)
    <3> DEFINE s(status) == [sess[p] EXCEPT !.at = "put",
                                    !.seen = status]
    <3>1. PICK status \in Statuses :
             /\ sess' = [sess EXCEPT ![p] = s(status)]
             /\ faults' = faults \/ (faults < MaxFaults /\ faults' = faults + 1)
      <4>1. Reading(cluster.deployment, sess[p].copy) \in Statuses
        BY DEF Reading, Statuses
      <4>2. "failed" \in Statuses
        BY DEF Statuses
      <4> QED
        BY <2>3, <4>1, <4>2 DEF Read
    <3>2. UNCHANGED <<row, cluster, cache, busy, crashes>>
      BY <2>3 DEF Read
    <3>3. sess[p].at \in {"look", "read"}
      BY <2>3 DEF Read
    <3>4. s(status) \in Session /\ s(status).at = "put" /\ s(status).op \in {"refresh", "poll"}
          /\ s(status).seen \in Statuses
      BY <2>1, <3>3 DEF Sound, Session, MayBeAt, Places, Readings
    <3>5. Sound(s(status))
      BY <3>4 DEF Sound, MayBeAt
    <3>6. faults' \in 0 .. MaxFaults
      BY <2>1, <3>1, BoundsAssumption
    <3> QED
      BY <2>1, <3>1, <3>2, <3>4, <3>5, <3>6
  <2>4. CASE Put(p)
    <3>1. /\ sess' = [sess EXCEPT ![p] = Moved(sess[p])]
          /\ cache' = sess[p].seen /\ sess[p].at = "put"
          /\ UNCHANGED <<row, cluster, busy, faults, crashes>>
      BY <2>4 DEF Put, IInv, TypeOK
    <3>2. Sound(Moved(sess[p]))
      BY <2>1, <3>1, MovedSound
    <3>3. Moved(sess[p]).at = "save"
      BY <2>1, <3>1 DEF Moved, GoesTo, After, Session
    <3>4. sess[p].seen \in Readings
      BY <2>1 DEF Session
    <3> QED
      BY <2>1, <3>1, <3>2, <3>3, <3>4
  <2> QED
    BY <2>2, <2>3, <2>4
<1>2. /\ sess' \in [Actor -> Session]
      /\ \A q \in Actor : Sound(sess'[q])
      /\ sess'[p] = s
      /\ \A q \in Actor : q # p => sess'[q] = sess[q]
  BY <1>1, OneSession
<1>3. TypeOK'
  BY <1>1, <1>2 DEF IInv, TypeOK
<1>4. row.status # "absent"
  <2>1. sess[p].at # "idle"
    BY DEF Hit, Read, Put
  <2> QED
    BY <2>1 DEF IInv, Provision
<1>5. Provision'
  <2>1. \A q \in Actor : sess'[q].at \in {"deploy", "expose", "unserve", "erase"}
                            => sess'[q].at = sess[q].at
    BY <1>1, <1>2
  <2>2. row' = row /\ cluster' = cluster /\ cluster \in Cluster
    BY <1>1 DEF IInv, TypeOK
  <2> QED
    BY <1>4, <2>1, <2>2, QuietStep
<1> QED
  BY <1>2, <1>3, <1>5 DEF IInv

\* Looking for work that is going on
LEMMA CheckKeeps ==
    ASSUME IInv, NEW p \in Actor, Check(p)
    PROVE  IInv'
<1> DEFINE s == IF busy THEN Idle ELSE Moved(sess[p])
<1>1. /\ sess' = [sess EXCEPT ![p] = s]
      /\ sess[p].at = "check"
      /\ UNCHANGED <<row, cluster, cache, busy, faults, crashes>>
  BY DEF Check, CheckFor, IInv, TypeOK
<1>2. Sound(s) /\ s.at \notin {"deploy", "expose", "unserve", "erase"}
  <2>1. Sound(sess[p])
    BY DEF IInv
  <2>2. Sound(Moved(sess[p])) /\ Moved(sess[p]).at \notin {"deploy", "expose", "unserve", "erase"}
    BY <1>1, <2>1, MovedSound, MovedTo
  <2>3. Idle.at = "idle"
    BY DEF Idle
  <2> QED
    BY <2>2, <2>3, IdleSound
<1> HIDE DEF s
<1>3. /\ sess' \in [Actor -> Session]
      /\ \A q \in Actor : Sound(sess'[q])
      /\ sess'[p] = s
      /\ \A q \in Actor : q # p => sess'[q] = sess[q]
  BY <1>1, <1>2, OneSession
<1>4. TypeOK'
  BY <1>1, <1>3 DEF IInv, TypeOK
<1>5. row.status # "absent"
  BY <1>1 DEF IInv, Provision
<1>6. Provision'
  <2>1. \A q \in Actor : sess'[q].at \in {"deploy", "expose", "unserve", "erase"}
                            => sess'[q].at = sess[q].at
    BY <1>2, <1>3
  <2>2. row' = row /\ cluster' = cluster /\ cluster \in Cluster
    BY <1>1 DEF IInv, TypeOK
  <2> QED
    BY <1>5, <2>1, <2>2, QuietStep
<1> QED
  BY <1>3, <1>4, <1>6 DEF IInv

\* Writing the outcome
LEMMA SaveKeeps ==
    ASSUME IInv, NEW p \in Actor, Save(p)
    PROVE  IInv'
<1> DEFINE s == IF Present THEN Moved(sess[p]) ELSE Idle
<1>1. /\ sess' = [sess EXCEPT ![p] = s]
      /\ sess[p].at = "save"
      /\ UNCHANGED <<cluster, cache, busy, faults, crashes>>
  BY DEF Save
<1>2. Sound(sess[p]) /\ row \in [status : RowStatuses, recent : BOOLEAN]
  BY DEF IInv, TypeOK
<1>3. Sound(s) /\ s.at \notin {"deploy", "expose", "unserve", "erase"}
  <2>1. Sound(Moved(sess[p])) /\ Moved(sess[p]).at \notin {"deploy", "expose", "unserve", "erase"}
    BY <1>1, <1>2, MovedSound, MovedTo
  <2> QED
    BY <2>1, IdleSound DEF Idle
<1>4. Outcome(sess[p]) \in Statuses
  BY <1>1, <1>2 DEF Sound, Outcome, Writers, Statuses
<1>5. /\ row' \in [status : RowStatuses, recent : BOOLEAN]
      /\ row'.status \in {"absent", "gone"} => row'.status = row.status
      /\ row.status # "absent" => row'.status # "absent"
  <2>1. CASE ~Present
    BY <1>2, <2>1 DEF Save
  <2>2. CASE Present
    <3> DEFINE status == IF Outcome(sess[p]) = sess[p].copy THEN row.status ELSE Outcome(sess[p])
               recent == row.recent \/ sess[p].op \in {"start", "restart"}
    <3>1. row' = [status |-> status, recent |-> recent]
      BY <2>2 DEF Save
    <3>2. status \in Statuses
      BY <1>4, <2>2 DEF Present
    <3>3. recent \in BOOLEAN
      BY <1>2
    <3> HIDE DEF status, recent
    <3>4. row'.status \in Statuses /\ row' \in [status : RowStatuses, recent : BOOLEAN]
      BY <3>1, <3>2, <3>3 DEF RowStatuses
    <3> QED
      BY <3>4 DEF Statuses
  <2> QED
    BY <2>1, <2>2
<1> HIDE DEF s
<1>6. /\ sess' \in [Actor -> Session]
      /\ \A q \in Actor : Sound(sess'[q])
      /\ sess'[p] = s
      /\ \A q \in Actor : q # p => sess'[q] = sess[q]
  BY <1>1, <1>3, OneSession
<1>7. TypeOK'
  BY <1>1, <1>5, <1>6 DEF IInv, TypeOK
<1>8. Provision'
  <2>1. row'.status # "absent"
    BY <1>1, <1>5 DEF IInv, Provision
  <2>2. \A q \in Actor : sess'[q].at \in {"deploy", "expose", "unserve", "erase"}
                            => sess'[q].at = sess[q].at
    BY <1>3, <1>6
  <2>3. cluster' = cluster /\ cluster \in Cluster
    BY <1>1 DEF IInv, TypeOK
  <2> QED
    BY <1>5, <2>1, <2>2, <2>3, QuietStep
<1> QED
  BY <1>6, <1>7, <1>8 DEF IInv

\* Forgetting the reading
LEMMA InvalidateKeeps ==
    ASSUME IInv, NEW p \in Actor, Invalidate(p)
    PROVE  IInv'
<1>1. /\ sess[p].at = "invalidate" /\ cache' = NoReading
      /\ UNCHANGED <<row, cluster, busy, faults, crashes>>
      /\ sess' = [sess EXCEPT ![p] = Moved(sess[p])]
  BY DEF Invalidate
<1>2. \A q \in Actor : Sound(sess[q])
  BY DEF IInv
<1>3. Sound(Moved(sess[p])) /\ Moved(sess[p]).at \notin {"deploy", "expose", "unserve", "erase"}
  BY <1>1, <1>2, MovedSound, MovedTo
<1>4. /\ sess' \in [Actor -> Session] /\ \A q \in Actor : Sound(sess'[q])
      /\ sess'[p] = Moved(sess[p]) /\ \A q \in Actor : q # p => sess'[q] = sess[q]
  BY <1>1, <1>3, OneSession
<1>5. cache' \in Readings
  BY <1>1 DEF Readings
<1>6. TypeOK'
  BY <1>1, <1>4, <1>5 DEF IInv, TypeOK
<1>7. Provision'
  <2>1. row.status # "absent"
    BY <1>1 DEF IInv, Provision
  <2>2. \A q \in Actor : sess'[q].at \in {"deploy", "expose", "unserve", "erase"}
                            => sess'[q].at = sess[q].at
    BY <1>3, <1>4
  <2>3. row' = row /\ cluster' = cluster /\ cluster \in Cluster
    BY <1>1 DEF IInv, TypeOK
  <2> QED
    BY <2>1, <2>2, <2>3, QuietStep
<1> QED
  BY <1>4, <1>6, <1>7 DEF IInv

\* The row goes: by then the cluster is clean.
LEMMA EraseKeeps ==
    ASSUME IInv, NEW p \in Actor, Erase(p)
    PROVE  IInv'
<1>1. /\ sess' = [sess EXCEPT ![p] = Idle]
      /\ sess[p].at = "erase"
      /\ row' = [row EXCEPT !.status = "gone"]
      /\ UNCHANGED <<cluster, cache, busy, faults, crashes>>
  BY DEF Erase
<1>2. /\ sess' \in [Actor -> Session]
      /\ \A q \in Actor : Sound(sess'[q])
      /\ sess'[p] = Idle
      /\ \A q \in Actor : q # p => sess'[q] = sess[q]
  BY <1>1, IdleSound, OneSession
<1>3. row'.status = "gone" /\ row' \in [status : RowStatuses, recent : BOOLEAN]
  BY <1>1 DEF IInv, TypeOK, RowStatuses
<1>4. TypeOK'
  BY <1>1, <1>2, <1>3 DEF IInv, TypeOK
<1>5. Clean
  BY <1>1 DEF IInv, Provision
<1>6. Provision'
  <2>1. sess'[p].at = "idle"
    BY <1>2 DEF Idle
  <2>2. \A q \in Actor : ~Provisioning(q)'
    BY <1>2, <1>5, <2>1 DEF Clean, Provisioning
  <2>3. cluster' = Nothing
    BY <1>1, <1>5 DEF Clean
  <2> QED
    BY <1>3, <2>2, <2>3 DEF Provision, Clean, Provisioning, Nothing
<1> QED
  BY <1>2, <1>4, <1>6 DEF IInv

\* What happens around the operations
LEMMA SurroundingsKeep ==
    ASSUME IInv, Expire \/ ClusterMoves \/ Activity \/ TaskActivity \/ Crash
    PROVE  IInv'
<1>1. TypeOK /\ (\A q \in Actor : Sound(sess[q])) /\ cluster \in Cluster
      /\ row \in [status : RowStatuses, recent : BOOLEAN]
  BY DEF IInv, TypeOK
<1>2. CASE Expire
  <2>1. cache' = NoReading /\ UNCHANGED <<row, cluster, busy, sess, faults, crashes>>
    BY <1>2 DEF Expire
  <2>2. cache' \in Readings
    BY <2>1 DEF NoReading, Readings
  <2> QED
    BY <2>1, <2>2 DEF IInv, TypeOK, Provision, Provisioning, Clean
<1>3. CASE ClusterMoves
  <2>1. UNCHANGED <<row, cache, busy, sess, faults, crashes>>
    BY <1>3 DEF ClusterMoves
  <2>2. /\ cluster' \in Cluster /\ cluster.deployment # "none"
        /\ cluster'.service = cluster.service
    <3>1. PICK d \in Moves(cluster.deployment) : cluster' = [cluster EXCEPT !.deployment = d]
      BY <1>3 DEF ClusterMoves
    <3>2. d \in Deployments /\ cluster.deployment # "none"
      BY DEF Moves, Deployments
    <3> QED
      BY <1>1, <3>1, <3>2 DEF Cluster
  <2>3. row.status # "absent"
    BY <2>2 DEF IInv, Provision, Nothing
  <2>4. Provision'
    BY <2>1, <2>2, <2>3, QuietStep
  <2> QED
    BY <1>1, <2>1, <2>2, <2>4 DEF IInv, TypeOK
<1>4. CASE Activity
  <2>1. /\ UNCHANGED <<cluster, cache, busy, sess, faults, crashes>>
        /\ row' = [row EXCEPT !.recent = ~@]
    BY <1>4 DEF Activity
  <2>2. row'.status = row.status /\ row' \in [status : RowStatuses, recent : BOOLEAN]
    BY <1>1, <2>1
  <2> QED
    BY <2>1, <2>2 DEF IInv, TypeOK, Provision, Provisioning, Clean
<1>5. CASE TaskActivity
  <2>1. UNCHANGED <<row, cluster, cache, sess, faults, crashes>> /\ busy' = ~busy
    BY <1>5 DEF TaskActivity
  <2>2. busy' \in BOOLEAN
    BY <2>1
  <2> QED
    BY <2>1, <2>2 DEF IInv, TypeOK, Provision, Provisioning, Clean
<1>6. CASE Crash
  <2>1. /\ UNCHANGED <<row, cluster, busy, faults>> /\ cache' = NoReading
        /\ sess' = [p \in Actor |-> Idle]
        /\ crashes < MaxCrashes /\ crashes' = crashes + 1
    BY <1>6 DEF Crash
  <2>2. \A q \in Actor : sess'[q] = Idle
    BY <2>1
  <2>3. \A q \in Actor : Sound(sess'[q])
    BY <2>2, IdleSound
  <2>4. sess' \in [Actor -> Session] /\ cache' \in Readings
    BY <2>1, IdleSound DEF Sound, NoReading, Readings
  <2>5. crashes' \in 0 .. MaxCrashes
    BY <2>1, BoundsAssumption DEF IInv, TypeOK
  <2>6. TypeOK'
    BY <2>1, <2>4, <2>5 DEF IInv, TypeOK
  <2>7. \A q \in Actor : sess'[q].at = "idle"
    BY <2>2 DEF Idle
  <2>8. Provision'
    BY <1>1, <2>1, <2>7, QuietStep
  <2> QED
    BY <2>3, <2>6, <2>8 DEF IInv
<1> QED
  BY <1>2, <1>3, <1>4, <1>5, <1>6

-----------------------------------------------------------------------------
(* Theorems *)

\* Every step keeps the inductive invariant: requests, background work, the
\* cluster's moves, faults and restarts.
THEOREM NextKeepsIInv == IInv /\ [Next]_vars => IInv'
<1> SUFFICES ASSUME IInv, [Next]_vars PROVE IInv'
  OBVIOUS
<1>1. ASSUME NEW p \in Actor, Proceed(p) PROVE IInv'
  BY <1>1, CallKeeps, CheckKeeps, ReadingKeeps, SaveKeeps, InvalidateKeeps, EraseKeeps DEF Proceed
<1>2. ASSUME NEW u \in User, NEW op \in Ops, Begin(u, op) PROVE IInv'
  BY <1>2, BeginKeeps DEF Actor
<1>3. CASE Refresh \/ AutoStop
  BY <1>3, BeginKeeps DEF Refresh, AutoStop, Actor, Ops
<1>4. CASE Expire \/ ClusterMoves \/ Activity \/ TaskActivity \/ Crash
  BY <1>4, SurroundingsKeep
<1>5. CASE UNCHANGED vars
  BY <1>5 DEF vars, IInv, TypeOK, Provision, Provisioning, Clean
<1> QED
  BY <1>1, <1>2, <1>3, <1>4, <1>5 DEF Next

\* The row, the cluster, the cache and the sessions keep their types: what is
\* written to the row is always a status.
THEOREM TypeCorrect == Spec => []TypeOK
<1>1. IInv => TypeOK
  BY DEF IInv
<1> QED
  BY <1>1, InitIInv, NextKeepsIInv, PTL DEF Spec

\* No deletion, whatever runs beside it and wherever the Portal restarts,
\* leaves a Deployment or a Service behind a row that is gone.
THEOREM NothingIsLeftBehind == Spec => []NoOrphan
<1>1. IInv => NoOrphan
  BY DEF IInv, Provision, Clean, NoOrphan, Nothing
<1> QED
  BY <1>1, InitIInv, NextKeepsIInv, PTL DEF Spec
=============================================================================
