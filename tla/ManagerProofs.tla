---------------------------- MODULE ManagerProofs ----------------------------
(***************************************************************************)
(* Proofs about Manager, for any number of cameras, streams and requests   *)
(* at a time: the registry accounts for every stream that runs, and        *)
(* requests that do not overlap keep records, list and streams in step.    *)
(***************************************************************************)
EXTENDS Manager, TLAPS

(* Zenon proves what is first-order; the leaves with arithmetic, sequences *)
(* or records name the SMT solver.                                         *)
USE ZenonT(30)

Jobs == {"none", "check-add", "check-delete", "upsert", "remove", "import", "list", "sync", "read", "stop"}

(* A request that will change one camera's stream has that camera.         *)
OneCamera == {"check-add", "check-delete", "upsert", "remove"}

RegistryTypes ==
    /\ job \in [Callers -> Jobs]
    /\ target = [k \in Callers |-> target[k]]
    /\ \A k \in Callers : job[k] \in OneCamera => target[k][1] \in Cameras
    /\ toStop \in [Callers -> SUBSET Streams]
    /\ streams \in [Cameras -> Streams \cup {NoStream}]

(* Only a request that is stopping streams has any to stop, no two of them *)
(* the same one, and after Close there is no other request.                *)
ManagerInv ==
    /\ RegistryTypes
    /\ RegistryExact
    /\ \A k \in Callers : job[k] # "stop" => toStop[k] = {}
    /\ \A j, k \in Callers : j # k => toStop[j] \cap toStop[k] = {}
    /\ closed => Registered = {} /\ \A k \in Callers : job[k] \in {"none", "stop"}

(* Only a request that waits for the store has a call there.               *)
Calling == {"upsert", "remove", "import", "sync", "read"}

CallSound ==
    /\ job \in [Callers -> Jobs]
    /\ call = [k \in Callers |-> call[k]]
    /\ \A k \in Callers : job[k] \in Calling \/ call[k] = "idle"

LEMMA InitInv == Init => ManagerInv
<1> SUFFICES ASSUME Init
             PROVE  ManagerInv
  OBVIOUS
<1>1. RegistryTypes
  BY DEF Init, RegistryTypes, Jobs, OneCamera
<1>2. Registered = {} /\ running = {} /\ \A k \in Callers : toStop[k] = {}
  BY DEF Init, Registered
<1>3. RegistryExact
  BY <1>2 DEF RegistryExact, Init
<1>4. QED
  BY <1>1, <1>2, <1>3 DEF ManagerInv, Init

LEMMA CallInit == Init => CallSound
BY SMTT(20) DEF Init, StoreInit, CallSound, Jobs

LEMMA CallNext == CallSound /\ [Next]_vars => CallSound'
<1> SUFFICES ASSUME CallSound, [Next]_vars
             PROVE  CallSound'
  OBVIOUS
<1> USE DEF CallSound
<1>1. ASSUME NEW k \in Callers, NEW name \in Jobs, NEW pc,
             job' = [job EXCEPT ![k] = name], call' = [call EXCEPT ![k] = pc],
             name \in Calling \/ pc = "idle"
      PROVE  CallSound'
  <2>1. /\ job' \in [Callers -> Jobs] /\ call' = [j \in Callers |-> call'[j]]
        /\ job'[k] = name /\ call'[k] = pc
        /\ \A j \in Callers \ {k} : job'[j] = job[j] /\ call'[j] = call[j]
    BY <1>1
  <2>2. QED
    BY <1>1, <2>1
<1>2. ASSUME NEW k \in Callers, NEW name \in Jobs, job[k] \notin Calling,
             job' = [job EXCEPT ![k] = name], UNCHANGED call
      PROVE  CallSound'
  <2>1. call' = [call EXCEPT ![k] = "idle"]
    BY <1>2
  <2>2. QED
    BY <1>1, <1>2, <2>1
<1>3. ASSUME NEW k \in Callers, NEW c \in Cameras, NEW r, AddCamera(k, c, r) \/ RemoveCamera(k, c)
      PROVE  CallSound'
  BY <1>2, <1>3 DEF AddCamera, RemoveCamera, Begin, storeVars, Calling, Jobs
<1>4. ASSUME NEW k \in Callers, NEW c, NEW r, EditCamera(k, c, r) \/ ImportBackup(k, r) \/ FlushBilling(k)
      PROVE  CallSound'
  BY <1>1, <1>4 DEF EditCamera, ImportBackup, FlushBilling, Begin, UpdateCameraTx, ImportJSON,
                    BatchUpdateTraffic, BeginWrite, Calling, Jobs
<1>5. ASSUME NEW k \in Callers, AddCameraSave(k) \/ RemoveCameraDelete(k)
      PROVE  CallSound'
  BY <1>1, <1>5 DEF AddCameraSave, RemoveCameraDelete, SaveCamera, DeleteCamera, BeginWrite, Calling, Jobs
<1>6. ASSUME NEW k \in Callers, ImportList(k) \/ GetCameras(k)
      PROVE  CallSound'
  <2>1. \E pc : call' = [call EXCEPT ![k] = pc]
    BY <1>6 DEF ImportList, GetCameras, ListCameras
  <2>2. QED
    BY <1>1, <1>6, <2>1 DEF ImportList, GetCameras, Begin, Calling, Jobs
<1>7. ASSUME NEW k \in Callers, StoreStep(k), UNCHANGED managerVars
      PROVE  CallSound'
  <2>1. /\ call[k] # "idle" /\ UNCHANGED job /\ call' = [j \in Callers |-> call'[j]]
        /\ \A j \in Callers \ {k} : call'[j] = call[j]
    BY <1>7 DEF StoreStep, Commit, CommitFails, View, ViewFails, Fill, managerVars
  <2>2. QED
    BY <2>1
<1>8. ASSUME NEW k \in Callers, Upsert(k) \/ Remove(k) \/ Imported(k) \/ Sync(k) \/ Fail(k)
      PROVE  CallSound'
  BY <1>1, <1>8 DEF Upsert, Remove, Imported, Sync, Fail, TakeResult, Then, Jobs
<1>9. ASSUME NEW k \in Callers, Close(k) \/ Respond(k)
      PROVE  CallSound'
  BY <1>2, <1>9 DEF Close, Respond, storeVars, Calling, Jobs
<1>10. CASE UNCHANGED <<job, call>>
  BY <1>10
<1>11. ASSUME NEW k \in Callers, NEW s \in Streams, StopStream(k, s)
       PROVE  UNCHANGED <<job, call>>
  BY <1>11 DEF StopStream, storeVars, requestVars
<1>12. CASE UNCHANGED vars
  BY <1>10, <1>12 DEF vars, storeVars, managerVars
<1>13. CASE Next
  BY <1>3, <1>4, <1>5, <1>6, <1>7, <1>8, <1>9, <1>10, <1>11, <1>12, <1>13 DEF Next, Terminated
<1>14. QED
  BY <1>12, <1>13

(* A step of the registry: the streams that are taken out were registered, *)
(* and a camera that gets a new one has its old one taken out.             *)
LEMMA RegisterKeepsExact ==
    ASSUME ManagerInv, NEW k \in Callers, toStop[k] = {},
           NEW want, NEW out, DOMAIN want \subseteq Cameras, out \subseteq Registered,
           \A c \in DOMAIN want : Current(c) \subseteq out,
           Register(k, want, out)
    PROVE  /\ RegistryExact'
           /\ toStop' \in [Callers -> SUBSET Streams]
           /\ streams' \in [Cameras -> Streams \cup {NoStream}]
           /\ \A j \in Callers \ {k} : toStop'[j] = toStop[j]
           /\ \A i, j \in Callers : i # j => toStop'[i] \cap toStop'[j] = {}
           /\ DOMAIN want = {} => Registered' = Registered \ out
<1> DEFINE W == DOMAIN want
           All == UNION {toStop[j] : j \in Callers}
<1>1. PICK new \in [W -> {s \in Streams : Free(s)}] :
         /\ \A c, d \in W : new[c] = new[d] => c = d
         /\ streams' = [c \in Cameras |-> IF c \in W THEN new[c]
                                          ELSE IF streams[c] \in out THEN NoStream
                                          ELSE streams[c]]
         /\ running' = running \cup {new[c] : c \in W}
         /\ toStop' = [toStop EXCEPT ![k] = out]
  BY DEF Register
<1>2. /\ streams \in [Cameras -> Streams \cup {NoStream}] /\ toStop \in [Callers -> SUBSET Streams]
      /\ RegistryExact /\ NoStream \notin Streams
  BY ManagerAssumption DEF ManagerInv, RegistryTypes
<1>3. \A c \in W : new[c] \in Streams /\ new[c] \notin running \cup Registered \cup All
  BY <1>1 DEF Free
<1>4. out \subseteq Streams /\ NoStream \notin out
  BY <1>2, SMTT(20) DEF Registered
<1>5. /\ streams' \in [Cameras -> Streams \cup {NoStream}]
      /\ toStop' \in [Callers -> SUBSET Streams] /\ toStop'[k] = out
      /\ \A j \in Callers \ {k} : toStop'[j] = toStop[j]
  BY <1>1, <1>2, <1>3, <1>4
<1>6. \A c \in Cameras : streams[c] # NoStream => streams[c] \in Registered
  BY DEF Registered
<1>7. Registered' = {new[c] : c \in W} \cup (Registered \ out)
  <2>1. ASSUME NEW s \in Registered'
        PROVE  s \in {new[c] : c \in W} \cup (Registered \ out)
    <3>1. PICK c \in Cameras : s = streams'[c] /\ s # NoStream
      BY DEF Registered
    <3>2. QED
      BY <1>1, <1>6, <3>1
  <2>2. ASSUME NEW c \in W
        PROVE  new[c] \in Registered'
    BY <1>1, <1>2, <1>3 DEF Registered
  <2>3. ASSUME NEW s \in Registered \ out
        PROVE  s \in Registered'
    <3>1. PICK c \in Cameras : s = streams[c] /\ s # NoStream
      BY DEF Registered
    <3>2. c \notin W
      BY <3>1 DEF Current
    <3>3. streams'[c] = s
      BY <1>1, <3>1, <3>2
    <3>4. QED
      BY <3>1, <3>3 DEF Registered
  <2>4. QED
    BY <2>1, <2>2, <2>3
<1>8. UNION {toStop'[j] : j \in Callers} = All \cup out
  BY <1>5, SMTT(20)
<1>9. running' = Registered' \cup UNION {toStop'[j] : j \in Callers}
  BY <1>1, <1>2, <1>7, <1>8 DEF RegistryExact
<1>10. \A j \in Callers : toStop'[j] \cap Registered' = {}
  <2>1. out \cap Registered' = {}
    BY <1>3, <1>7, SMTT(20)
  <2>2. ASSUME NEW j \in Callers \ {k}
        PROVE  toStop[j] \cap Registered' = {}
    BY <1>2, <1>3, <1>7, SMTT(20) DEF RegistryExact
  <2>3. QED
    BY <1>5, <2>1, <2>2
<1>11. \A c, d \in Cameras : streams'[c] = streams'[d] /\ streams'[c] # NoStream => c = d
  <2>1. SUFFICES ASSUME NEW c \in Cameras, NEW d \in Cameras,
                        streams'[c] = streams'[d], streams'[c] # NoStream
                 PROVE  c = d
    OBVIOUS
  <2>2. CASE c \in W /\ d \in W
    BY <1>1, <2>1, <2>2
  <2>3. CASE c \notin W /\ d \notin W
    BY <1>1, <1>2, <2>1, <2>3 DEF RegistryExact
  <2>4. CASE c \in W /\ d \notin W
    BY <1>1, <1>3, <1>6, <2>1, <2>4
  <2>5. CASE c \notin W /\ d \in W
    BY <1>1, <1>3, <1>6, <2>1, <2>5
  <2>6. QED
    BY <2>2, <2>3, <2>4, <2>5
<1>12. RegistryExact'
  BY <1>9, <1>10, <1>11 DEF RegistryExact
<1>13. \A i, j \in Callers : i # j => toStop'[i] \cap toStop'[j] = {}
  <2>1. \A j \in Callers : out \cap toStop[j] = {}
    BY <1>2 DEF RegistryExact
  <2>2. QED
    BY <1>5, <2>1, SMTT(20) DEF ManagerInv
<1>14. W = {} => Registered' = Registered \ out
  BY <1>7
<1>15. QED
  BY <1>5, <1>12, <1>13, <1>14

(* A request that goes on without touching the registry.                   *)
LEMMA GoingOnKeepsInv ==
    ASSUME ManagerInv, NEW k \in Callers, job[k] # "stop", closed = FALSE,
           NEW name \in Jobs \ {"stop"}, job' = [job EXCEPT ![k] = name],
           target' = [j \in Callers |-> target'[j]],
           \A j \in Callers \ {k} : target'[j] = target[j],
           name \in OneCamera => target'[k][1] \in Cameras,
           UNCHANGED <<toStop, streams, running, closed>>
    PROVE  ManagerInv'
<1>1. /\ job' \in [Callers -> Jobs] /\ job'[k] = name
      /\ \A j \in Callers \ {k} : job'[j] = job[j]
  BY DEF ManagerInv, RegistryTypes
<1>2. RegistryTypes'
  BY <1>1 DEF ManagerInv, RegistryTypes
<1>3. Registered' = Registered /\ RegistryExact'
  BY SMTT(20) DEF ManagerInv, RegistryExact, Registered
<1>4. QED
  BY <1>1, <1>2, <1>3 DEF ManagerInv

(* A request that changes the registry and goes on to stop streams.        *)
LEMMA RegisteringKeepsInv ==
    ASSUME ManagerInv, NEW k \in Callers, job[k] # "stop",
           NEW want, NEW out, DOMAIN want \subseteq Cameras, out \subseteq Registered,
           \A c \in DOMAIN want : Current(c) \subseteq out,
           Register(k, want, out), job' = [job EXCEPT ![k] = "stop"], UNCHANGED target,
           closed' => DOMAIN want = {} /\ out = Registered /\ \A j \in Callers : job[j] = "none"
    PROVE  ManagerInv'
<1>1. /\ job' \in [Callers -> Jobs] /\ job'[k] = "stop"
      /\ \A j \in Callers \ {k} : job'[j] = job[j]
  BY DEF ManagerInv, RegistryTypes, Jobs
<1>2. toStop[k] = {}
  BY DEF ManagerInv
<1>3. /\ RegistryExact'
      /\ toStop' \in [Callers -> SUBSET Streams]
      /\ streams' \in [Cameras -> Streams \cup {NoStream}]
      /\ \A j \in Callers \ {k} : toStop'[j] = toStop[j]
      /\ \A i, j \in Callers : i # j => toStop'[i] \cap toStop'[j] = {}
      /\ DOMAIN want = {} => Registered' = Registered \ out
  BY <1>2, RegisterKeepsExact
<1>4. RegistryTypes'
  BY <1>1, <1>3 DEF ManagerInv, RegistryTypes, OneCamera
<1>5. closed' => Registered' = {} /\ \A j \in Callers : job'[j] \in {"none", "stop"}
  BY <1>1, <1>3
<1>6. QED
  BY <1>1, <1>3, <1>4, <1>5 DEF ManagerInv

LEMMA NextInv == CallSound /\ ManagerInv /\ [Next]_vars => ManagerInv'
<1> SUFFICES ASSUME CallSound, ManagerInv, [Next]_vars
             PROVE  ManagerInv'
  OBVIOUS
<1>a. /\ job \in [Callers -> Jobs] /\ target = [k \in Callers |-> target[k]]
      /\ streams \in [Cameras -> Streams \cup {NoStream}]
  BY DEF ManagerInv, RegistryTypes
<1>b. \A k \in Callers : job[k] \notin {"none", "stop"} => closed = FALSE
  BY SMTT(20) DEF ManagerInv
<1>c. \A c \in Cameras : Current(c) \subseteq Registered
  BY DEF Current, Registered
<1>d. DOMAIN <<>> = {}
  BY SMTT(20)
<1>1. ASSUME NEW k \in Callers, NEW name \in Jobs \ {"stop"}, NEW arg, Begin(k, name, arg),
             name \in OneCamera => arg[1] \in Cameras
      PROVE  ManagerInv'
  <2>1. /\ closed = FALSE /\ job[k] = "none" /\ job' = [job EXCEPT ![k] = name]
        /\ target' = [target EXCEPT ![k] = arg] /\ UNCHANGED <<toStop, streams, running, closed>>
    BY <1>1, SMTT(20) DEF Begin, registryVars
  <2>2. /\ target' = [j \in Callers |-> target'[j]] /\ target'[k] = arg
        /\ \A j \in Callers \ {k} : target'[j] = target[j]
    BY <2>1, <1>a
  <2>3. QED
    BY <2>1, <2>2, <1>1, GoingOnKeepsInv
<1>2. ASSUME NEW k \in Callers, NEW c \in Cameras, NEW r, AddCamera(k, c, r) \/ EditCamera(k, c, r)
      PROVE  ManagerInv'
  <2>1. <<c, r>>[1] = c
    OBVIOUS
  <2>2. Begin(k, "check-add", <<c, r>>) \/ Begin(k, "upsert", <<c, r>>)
    BY <1>2 DEF AddCamera, EditCamera
  <2>3. QED
    BY <2>1, <2>2, <1>1 DEF Jobs
<1>3. ASSUME NEW k \in Callers, NEW c \in Cameras, RemoveCamera(k, c)
      PROVE  ManagerInv'
  <2>1. <<c>>[1] = c
    OBVIOUS
  <2>2. QED
    BY <2>1, <1>1, <1>3 DEF RemoveCamera, Jobs
<1>4. ASSUME NEW k \in Callers, NEW records, ImportBackup(k, records) \/ GetCameras(k) \/ FlushBilling(k)
      PROVE  ManagerInv'
  <2>1. Begin(k, "import", <<>>) \/ Begin(k, "read", <<>>)
    BY <1>4 DEF ImportBackup, GetCameras, FlushBilling
  <2>2. QED
    BY <2>1, <1>1 DEF Jobs, OneCamera
<1>5. ASSUME NEW k \in Callers, AddCameraSave(k) \/ RemoveCameraDelete(k) \/ ImportList(k) \/ Imported(k)
      PROVE  ManagerInv'
  <2>1. PICK name \in {"upsert", "remove", "sync", "list"} :
           /\ job' = [job EXCEPT ![k] = name]
           /\ UNCHANGED <<target, toStop, streams, running, closed>>
           /\ job[k] \in Jobs \ {"none", "stop"}
           /\ name \in {"upsert", "remove"} => job[k] \in OneCamera
    BY <1>5, <1>a DEF AddCameraSave, RemoveCameraDelete, ImportList, Imported, Then, registryVars,
                     OneCamera
  <2>2. name \in OneCamera => target[k][1] \in Cameras
    BY <2>1 DEF ManagerInv, RegistryTypes, OneCamera
  <2>3. QED
    BY <2>1, <2>2, <1>a, <1>b, GoingOnKeepsInv DEF Jobs
<1>6. ASSUME NEW k \in Callers, Fail(k)
      PROVE  ManagerInv'
  <2>1. /\ job[k] \in Calling /\ job' = [job EXCEPT ![k] = "none"]
        /\ target' = [target EXCEPT ![k] = <<>>] /\ UNCHANGED <<toStop, streams, running, closed>>
    BY <1>6 DEF Fail, TakeResult, CallSound
  <2>2. closed = FALSE /\ job[k] # "stop"
    BY <2>1, <1>b DEF Calling
  <2>3. /\ target' = [j \in Callers |-> target'[j]]
        /\ \A j \in Callers \ {k} : target'[j] = target[j]
    BY <2>1, <1>a
  <2>4. QED
    BY <2>1, <2>2, <2>3, GoingOnKeepsInv DEF Jobs, OneCamera
<1>7. ASSUME NEW k \in Callers, Upsert(k)
      PROVE  ManagerInv'
  <2>1. PICK c, r : c = target[k][1] /\ r = target[k][2]
    OBVIOUS
  <2>2. /\ job[k] = "upsert" /\ job' = [job EXCEPT ![k] = "stop"] /\ UpsertStream(k, c, r)
        /\ UNCHANGED <<target, closed>>
    BY <1>7, <2>1 DEF Upsert, Then
  <2>3. c \in Cameras /\ closed = FALSE
    BY <2>1, <2>2, <1>b DEF ManagerInv, RegistryTypes, OneCamera
  <2>4. CASE Register(k, <<>>, Current(c))
    BY <2>2, <2>3, <2>4, <1>c, <1>d, RegisteringKeepsInv
  <2>5. CASE Register(k, <<>>, {})
    BY <2>2, <2>3, <2>5, <1>c, <1>d, RegisteringKeepsInv
  <2>6. CASE Register(k, [d \in {c} |-> r], Current(c))
    <3>1. DOMAIN [d \in {c} |-> r] = {c}
      OBVIOUS
    <3>2. QED
      BY <2>2, <2>3, <2>6, <3>1, <1>c, RegisteringKeepsInv
  <2>7. QED
    BY <2>2, <2>4, <2>5, <2>6 DEF UpsertStream
<1>8. ASSUME NEW k \in Callers, Remove(k)
      PROVE  ManagerInv'
  <2>1. PICK c : c = target[k][1]
    OBVIOUS
  <2>2. /\ job[k] = "remove" /\ job' = [job EXCEPT ![k] = "stop"] /\ Register(k, <<>>, Current(c))
        /\ UNCHANGED <<target, closed>>
    BY <1>8, <2>1 DEF Remove, Then
  <2>3. c \in Cameras /\ closed = FALSE
    BY <2>1, <2>2, <1>b DEF ManagerInv, RegistryTypes, OneCamera
  <2>4. QED
    BY <2>2, <2>3, <1>c, <1>d, RegisteringKeepsInv
<1>9. ASSUME NEW k \in Callers, Sync(k)
      PROVE  ManagerInv'
  <2> DEFINE cams == list[k]
             want == {c \in Cameras : cams[c] \in Configs /\ ~Matches(c, cams[c])}
             gone == {c \in Cameras : cams[c] \notin Configs}
             start == [c \in want |-> cams[c]]
             out == UNION {Current(c) : c \in want \cup gone}
  <2>1. /\ job[k] = "sync" /\ job' = [job EXCEPT ![k] = "stop"] /\ Register(k, start, out)
        /\ UNCHANGED <<target, closed>>
    BY <1>9 DEF Sync, Then, SyncWithStorage
  <2>2. DOMAIN start = want /\ want \subseteq Cameras /\ gone \subseteq Cameras
    OBVIOUS
  <2> HIDE DEF start, want, gone
  <2>3. out \subseteq Registered /\ \A c \in DOMAIN start : Current(c) \subseteq out
    BY <2>2, <1>c
  <2> HIDE DEF out
  <2>4. closed = FALSE
    BY <2>1, <1>b
  <2>5. QED
    BY <2>1, <2>2, <2>3, <2>4, RegisteringKeepsInv
<1>10. ASSUME NEW k \in Callers, Close(k)
       PROVE  ManagerInv'
  <2>1. /\ \A j \in Callers : job[j] = "none"
        /\ job' = [job EXCEPT ![k] = "stop"] /\ Register(k, <<>>, Registered) /\ UNCHANGED target
    BY <1>10 DEF Close
  <2>2. QED
    BY <2>1, <1>d, RegisteringKeepsInv
<1>11. ASSUME NEW k \in Callers, NEW s \in Streams, StopStream(k, s)
       PROVE  ManagerInv'
  <2>1. /\ job[k] = "stop" /\ s \in toStop[k] /\ toStop' = [toStop EXCEPT ![k] = @ \ {s}]
        /\ running' = running \ {s} /\ UNCHANGED <<job, target, streams, closed>>
    BY <1>11 DEF StopStream, requestVars
  <2>2. toStop \in [Callers -> SUBSET Streams] /\ RegistryExact
    BY DEF ManagerInv, RegistryTypes
  <2>3. /\ toStop' \in [Callers -> SUBSET Streams] /\ toStop'[k] = toStop[k] \ {s}
        /\ \A j \in Callers \ {k} : toStop'[j] = toStop[j]
    BY <2>1, <2>2
  <2>4. RegistryTypes' /\ Registered' = Registered
    BY <2>1, <2>3, SMTT(20) DEF ManagerInv, RegistryTypes, Registered
  <2>5. s \notin Registered /\ \A j \in Callers \ {k} : s \notin toStop[j]
    BY <2>1, <2>2 DEF ManagerInv, RegistryExact
  <2>6. UNION {toStop'[j] : j \in Callers} = (UNION {toStop[j] : j \in Callers}) \ {s}
    BY <2>3, <2>5, SMTT(20)
  <2>7. running' = Registered \cup UNION {toStop'[j] : j \in Callers}
    BY <2>1, <2>2, <2>5, <2>6 DEF RegistryExact
  <2>8. RegistryExact'
    BY <2>1, <2>2, <2>3, <2>4, <2>7 DEF RegistryExact
  <2>9. QED
    BY <2>1, <2>3, <2>4, <2>8 DEF ManagerInv
<1>12. ASSUME NEW k \in Callers, Respond(k)
       PROVE  ManagerInv'
  <2>1. /\ job[k] = "stop" /\ toStop[k] = {} /\ job' = [job EXCEPT ![k] = "none"]
        /\ target' = [target EXCEPT ![k] = <<>>] /\ UNCHANGED <<toStop, streams, running, closed>>
    BY <1>12 DEF Respond, registryVars
  <2>2. /\ job' \in [Callers -> Jobs] /\ job'[k] = "none"
        /\ target' = [j \in Callers |-> target'[j]]
        /\ \A j \in Callers \ {k} : target'[j] = target[j] /\ job'[j] = job[j]
    BY <2>1, <1>a DEF Jobs
  <2>3. RegistryTypes'
    BY <2>1, <2>2 DEF ManagerInv, RegistryTypes, OneCamera
  <2>4. Registered' = Registered /\ RegistryExact'
    BY <2>1, SMTT(20) DEF ManagerInv, RegistryExact, Registered
  <2>5. QED
    BY <2>1, <2>2, <2>3, <2>4 DEF ManagerInv
<1>13. CASE UNCHANGED managerVars
  BY <1>13, SMTT(20) DEF managerVars, ManagerInv, RegistryTypes, RegistryExact, Registered
<1>14. CASE UNCHANGED vars
  BY <1>13, <1>14 DEF vars
<1>15. CASE Next
  BY <1>2, <1>3, <1>4, <1>5, <1>6, <1>7, <1>8, <1>9, <1>10, <1>11, <1>12, <1>13, <1>14, <1>15
     DEF Next, Terminated
<1>16. QED
  BY <1>14, <1>15

LEMMA InductiveInv == Spec => []ManagerInv
<1>1. Init => CallSound /\ ManagerInv
  BY CallInit, InitInv
<1>2. CallSound /\ ManagerInv /\ [Next]_vars => CallSound' /\ ManagerInv'
  BY CallNext, NextInv
<1>3. QED
  BY <1>1, <1>2, PTL DEF Spec

(* No order of requests leaves a stream running that is neither registered *)
(* nor about to be stopped, registers a stopped one, or gives one stream   *)
(* to two cameras.                                                         *)
THEOREM RegistryIsExact == Spec => []RegistryExact
<1>1. ManagerInv => RegistryExact
  BY DEF ManagerInv
<1>2. QED
  BY <1>1, InductiveInv, PTL

(* When Close has returned nothing runs, whatever the requests before it   *)
(* started.                                                                *)
THEOREM CloseStopsEverything == Spec => []CloseStopsAll
<1>1. ManagerInv => CloseStopsAll
  BY SMTT(20) DEF ManagerInv, CloseStopsAll, RegistryExact
<1>2. QED
  BY <1>1, InductiveInv, PTL
----------------------------------------------------------------------------
(* Requests that come one after the other keep the streams in step with    *)
(* the records.                                                            *)

InStep(c) == IF db[c] \in Configs THEN Matches(c, db[c]) ELSE streams[c] = NoStream
Written(k) == call[k] = "returned" /\ ok[k]
Wanted(k) == IF job[k] = "upsert" THEN target[k][2] ELSE NoCamera

(* The cameras whose streams a request has yet to bring in step.           *)
Due(k) ==
    {c \in Cameras : \/ job[k] \in {"upsert", "remove"} /\ Written(k) /\ c = target[k][1]
                     \/ job[k] = "import" /\ Written(k)
                     \/ job[k] \in {"list", "sync"}}

(* What a request writes.                                                  *)
RequestSound(k) ==
    /\ job[k] \in {"check-add", "upsert"} => target[k][2] \in Configs \cup {Disabled}
    /\ job[k] \in {"upsert", "remove"} =>
          write[k].records = [c \in Cameras |-> IF c = target[k][1] THEN Wanted(k) ELSE Keep]
    /\ job[k] = "read" /\ call[k] = "commit" => write[k].records = [c \in Cameras |-> Keep]
    /\ job[k] = "sync" => call[k] # "commit"
    /\ job[k] \in {"upsert", "remove"} => call[k] \in {"commit", "returned"}

RequestsSound ==
    /\ db = [c \in Cameras |-> db[c]]
    /\ write = [k \in Callers |-> write[k]] /\ list = [k \in Callers |-> list[k]]
    /\ ok \in [Callers -> BOOLEAN]
    /\ \A k \in Callers : RequestSound(k)

(* One request at a time: its list, and the cached one, are what the       *)
(* database holds, and the camera it has written has the record it wrote.  *)
OneAtATime == \A j, k \in Callers : job[j] # "none" /\ job[k] # "none" => j = k
ListSound(k) ==
    /\ call[k] = "commit" => cachedCameras = NoList
    /\ call[k] = "fill" => list[k] = db
    /\ job[k] = "sync" /\ Written(k) => list[k] = db
    /\ job[k] \in {"upsert", "remove"} /\ Written(k) => db[target[k][1]] = Wanted(k)
Alone ==
    /\ OneAtATime
    /\ cachedCameras = NoList \/ cachedCameras = db
    /\ \A k \in Callers : ListSound(k)

(* A camera is in step, or the request at work is going to see to it.      *)
Attended == \A c \in Cameras : InStep(c) \/ \E k \in Callers : c \in Due(k)

StepInv ==
    /\ RequestsSound
    /\ ~overlapped => Alone
    /\ ~overlapped /\ ~closed /\ ~syncFailed => Attended

(* A step of one request leaves the others where they are.                 *)
Others(k) ==
    \A j \in Callers \ {k} :
        /\ job'[j] = job[j] /\ target'[j] = target[j] /\ call'[j] = call[j]
        /\ write'[j] = write[j] /\ list'[j] = list[j] /\ ok'[j] = ok[j]

LEMMA OthersSound ==
    ASSUME NEW k \in Callers, Others(k), \A j \in Callers : RequestSound(j), RequestSound(k)'
    PROVE  \A j \in Callers : RequestSound(j)'
<1>1. ASSUME NEW j \in Callers \ {k}
      PROVE  RequestSound(j)'
  BY <1>1, SMTT(20) DEF Others, RequestSound, Wanted
<1>2. QED
  BY <1>1

(* While requests come one after the other, the others have no call.       *)
LEMMA AloneKept ==
    ASSUME CallSound, Alone, NEW k \in Callers, Others(k),
           job[k] # "none" \/ \A j \in Callers \ {k} : job[j] = "none",
           cachedCameras' = NoList \/ cachedCameras' = db', ListSound(k)'
    PROVE  Alone'
<1>1. \A j \in Callers \ {k} : job[j] = "none"
  BY DEF Alone, OneAtATime
<1>2. \A j \in Callers \ {k} : job'[j] = "none" /\ call'[j] = "idle"
  BY <1>1 DEF Others, CallSound, Calling
<1>3. OneAtATime'
  BY <1>2 DEF OneAtATime
<1>4. ASSUME NEW j \in Callers \ {k}
      PROVE  ListSound(j)'
  BY <1>2, <1>4 DEF ListSound, Written
<1>5. QED
  BY <1>3, <1>4 DEF Alone

(* A step that leaves records and streams alone, and no camera behind.     *)
LEMMA AttendedKept ==
    ASSUME Attended, NEW k \in Callers, Others(k), UNCHANGED <<db, streams, settings>>,
           \A c \in Due(k) : c \in Due(k)'
    PROVE  Attended'
<1>1. ASSUME NEW j \in Callers, NEW c \in Due(j)
      PROVE  c \in Due(j)'
  <2>1. CASE j # k
    BY <2>1, <1>1 DEF Others, Due, Written
  <2>2. QED
    BY <2>1, <1>1
<1>2. ASSUME NEW c \in Cameras, InStep(c)
      PROVE  InStep(c)'
  BY <1>2 DEF InStep, Matches
<1>3. QED
  BY <1>1, <1>2 DEF Attended

(* What a step of the registry does to the stream of a camera.             *)
Renewed(want) == \A c \in DOMAIN want : streams'[c] # NoStream /\ settings'[streams'[c]] = want[c]
Left(want, out) ==
    \A c \in Cameras \ DOMAIN want :
        streams[c] \notin out => /\ streams'[c] = streams[c]
                                 /\ streams[c] # NoStream => settings'[streams[c]] = settings[streams[c]]
TakenOut(want, out) == \A c \in Cameras \ DOMAIN want : streams[c] \in out => streams'[c] = NoStream

LEMMA RegisterStreams ==
    ASSUME ManagerInv, NEW k \in Callers, NEW want, NEW out, DOMAIN want \subseteq Cameras,
           Register(k, want, out)
    PROVE  Renewed(want) /\ Left(want, out) /\ TakenOut(want, out)
<1> DEFINE W == DOMAIN want
<1>1. PICK new \in [W -> {s \in Streams : Free(s)}] :
         /\ \A c, d \in W : new[c] = new[d] => c = d
         /\ streams' = [c \in Cameras |-> IF c \in W THEN new[c]
                                          ELSE IF streams[c] \in out THEN NoStream
                                          ELSE streams[c]]
         /\ settings' = [s \in Streams |-> IF s \in {new[c] : c \in W}
                                             THEN want[CHOOSE c \in W : new[c] = s]
                                             ELSE settings[s]]
  BY DEF Register
<1>2. NoStream \notin Streams /\ streams \in [Cameras -> Streams \cup {NoStream}]
  BY ManagerAssumption DEF ManagerInv, RegistryTypes
<1>3. ASSUME NEW c \in W
      PROVE  streams'[c] # NoStream /\ settings'[streams'[c]] = want[c]
  <2>1. streams'[c] = new[c] /\ new[c] \in Streams
    BY <1>1
  <2>2. (CHOOSE d \in W : new[d] = new[c]) = c
    BY <1>1
  <2>3. settings'[new[c]] = want[CHOOSE d \in W : new[d] = new[c]]
    BY <1>1, <2>1
  <2>4. QED
    BY <1>2, <2>1, <2>2, <2>3
<1>4. ASSUME NEW c \in Cameras \ W, streams[c] \notin out
      PROVE  /\ streams'[c] = streams[c]
             /\ streams[c] # NoStream => settings'[streams[c]] = settings[streams[c]]
  <2>1. streams'[c] = streams[c]
    BY <1>1, <1>4
  <2>2. streams[c] # NoStream => streams[c] \in Registered /\ streams[c] \in Streams
    BY <1>2 DEF Registered
  <2>3. streams[c] # NoStream => streams[c] \notin {new[d] : d \in W}
    BY <1>1, <2>2 DEF Free
  <2>4. QED
    BY <1>1, <2>1, <2>2, <2>3
<1>5. TakenOut(want, out)
  BY <1>1 DEF TakenOut
<1>6. QED
  BY <1>3, <1>4, <1>5 DEF Renewed, Left

(* A registry step brings the cameras in want in step, and those it takes  *)
(* out if their records ask for no stream; the others stay as they are.    *)
LEMMA RegisterInStep ==
    ASSUME ManagerInv, NEW k \in Callers, NEW want, NEW out, DOMAIN want \subseteq Cameras,
           Register(k, want, out), UNCHANGED db, NEW c \in Cameras,
           \/ c \in DOMAIN want /\ db[c] \in Configs /\ want[c] = db[c]
           \/ c \notin DOMAIN want /\ db[c] \notin Configs /\ Current(c) \subseteq out
           \/ c \notin DOMAIN want /\ streams[c] \notin out /\ InStep(c)
    PROVE  InStep(c)'
<1>1. Renewed(want) /\ Left(want, out) /\ TakenOut(want, out)
  BY RegisterStreams
<1>2. CASE c \in DOMAIN want /\ db[c] \in Configs /\ want[c] = db[c]
  BY <1>1, <1>2 DEF Renewed, InStep, Matches
<1>3. CASE c \notin DOMAIN want /\ db[c] \notin Configs /\ Current(c) \subseteq out
  <2>1. streams'[c] = NoStream
    BY <1>1, <1>3 DEF Left, TakenOut, Current
  <2>2. QED
    BY <1>3, <2>1 DEF InStep
<1>4. CASE c \notin DOMAIN want /\ streams[c] \notin out /\ InStep(c)
  BY <1>1, <1>4 DEF Left, InStep, Matches
<1>5. QED
  BY <1>2, <1>3, <1>4

(* A request begins, goes on to its next call, or has its call return: no  *)
(* stream and no record changes.                                           *)
LEMMA CallKeepsStepInv ==
    ASSUME CallSound, StepInv, NEW k \in Callers, Others(k),
           UNCHANGED <<db, streams, settings, closed>>,
           write' = [j \in Callers |-> write'[j]], list' = [j \in Callers |-> list'[j]],
           ok' \in [Callers -> BOOLEAN],
           job[k] # "none" \/ overlapped' \/ \A j \in Callers \ {k} : job[j] = "none",
           overlapped => overlapped', syncFailed => syncFailed',
           RequestSound(k)',
           Alone => (cachedCameras' = NoList \/ cachedCameras' = db) /\ ListSound(k)',
           \A c \in Due(k) : syncFailed' \/ c \in Due(k)'
    PROVE  StepInv'
<1>1. RequestsSound'
  <2>1. \A j \in Callers : RequestSound(j)'
    BY OthersSound DEF StepInv, RequestsSound
  <2>2. QED
    BY <2>1 DEF StepInv, RequestsSound
<1>2. ASSUME ~overlapped'
      PROVE  Alone'
  BY <1>2, AloneKept DEF StepInv
<1>3. ASSUME ~overlapped', ~closed', ~syncFailed'
      PROVE  Attended'
  BY <1>3, AttendedKept DEF StepInv
<1>4. QED
  BY <1>1, <1>2, <1>3 DEF StepInv

LEMMA BeginWriteStep ==
    ASSUME CallSound, ManagerInv, StepInv, NEW k \in Callers, NEW w, BeginWrite(k, w)
    PROVE  /\ call'[k] = "commit" /\ write'[k] = w /\ cachedCameras' = NoList
           /\ UNCHANGED <<db, list, ok>>
           /\ write' = [j \in Callers |-> write'[j]]
           /\ \A j \in Callers \ {k} : call'[j] = call[j] /\ write'[j] = write[j]
BY DEF BeginWrite, CallSound, StepInv, RequestsSound

LEMMA ListCamerasStep ==
    ASSUME CallSound, ManagerInv, StepInv, NEW k \in Callers, ListCameras(k)
    PROVE  /\ UNCHANGED <<db, write, cachedCameras>>
           /\ list' = [j \in Callers |-> list'[j]] /\ ok' \in [Callers -> BOOLEAN]
           /\ \A j \in Callers \ {k} : call'[j] = call[j] /\ list'[j] = list[j] /\ ok'[j] = ok[j]
           /\ call'[k] = "view" \/ (call'[k] = "returned" /\ cachedCameras # NoList /\ list'[k] = cachedCameras)
BY DEF ListCameras, CallSound, StepInv, RequestsSound

LEMMA BeginStep ==
    ASSUME CallSound, ManagerInv, NEW k \in Callers, NEW name \in Jobs, NEW arg, Begin(k, name, arg)
    PROVE  /\ job[k] = "none" /\ job'[k] = name /\ target'[k] = arg /\ ~closed
           /\ UNCHANGED <<toStop, streams, settings, running, syncFailed, closed>>
           /\ \A j \in Callers \ {k} : job'[j] = job[j] /\ target'[j] = target[j]
           /\ overlapped => overlapped'
           /\ overlapped' \/ \A j \in Callers \ {k} : job[j] = "none"
BY DEF Begin, CallSound, ManagerInv, RegistryTypes, registryVars

(* The records that a request for one camera writes.                       *)
LEMMA OneWrite ==
    ASSUME NEW c \in Cameras, NEW r, NEW needs
    PROVE  WriteOne(c, r, needs).records = [d \in Cameras |-> IF d = c THEN r ELSE Keep]
BY DEF WriteOne, NoWrite

(* A request that begins.                                                  *)
LEMMA BeginKeepsStepInv ==
    ASSUME CallSound, ManagerInv, StepInv, NEW k \in Callers, NEW c, NEW r, NEW records,
           \/ c \in Cameras /\ r \in Configs \cup {Disabled} /\ (AddCamera(k, c, r) \/ EditCamera(k, c, r))
           \/ RemoveCamera(k, c) \/ ImportBackup(k, records) \/ GetCameras(k) \/ FlushBilling(k)
    PROVE  StepInv'
<1>a. <<c, r>>[1] = c /\ <<c, r>>[2] = r /\ <<c>>[1] = c
  OBVIOUS
<1>b. /\ write = [j \in Callers |-> write[j]] /\ list = [j \in Callers |-> list[j]]
      /\ ok \in [Callers -> BOOLEAN] /\ RequestSound(k)
  BY DEF StepInv, RequestsSound
<1>c. Alone => cachedCameras = NoList \/ cachedCameras = db
  BY DEF Alone
<1>1. CASE (r \in Configs \cup {Disabled} /\ AddCamera(k, c, r)) \/ RemoveCamera(k, c)
  <2>1. PICK name, arg :
           /\ name \in {"check-add", "check-delete"}
           /\ Begin(k, name, arg) /\ UNCHANGED storeVars
           /\ name = "check-add" => arg[2] \in Configs \cup {Disabled}
    BY <1>1, <1>a, SMTT(20) DEF AddCamera, RemoveCamera
  <2>2. /\ job[k] = "none" /\ job'[k] = name /\ target'[k] = arg
        /\ UNCHANGED <<streams, settings, syncFailed, closed>>
        /\ \A j \in Callers \ {k} : job'[j] = job[j] /\ target'[j] = target[j]
        /\ overlapped => overlapped'
        /\ overlapped' \/ \A j \in Callers \ {k} : job[j] = "none"
    BY <2>1, BeginStep, SMTT(20) DEF Jobs
  <2>3. UNCHANGED <<db, cachedCameras, call, write, list, ok>> /\ call[k] = "idle"
    BY <2>1, <2>2 DEF storeVars, CallSound, Calling
  <2>4. Others(k)
    BY <2>2, <2>3 DEF Others
  <2>5. RequestSound(k)' /\ ListSound(k)'
    BY <2>1, <2>2, <2>3 DEF RequestSound, ListSound, Written
  <2>6. Due(k) = {}
    BY <2>2 DEF Due
  <2>7. QED
    BY <1>b, <1>c, <2>2, <2>3, <2>4, <2>5, <2>6, CallKeepsStepInv
<1>2. CASE \/ c \in Cameras /\ r \in Configs \cup {Disabled} /\ EditCamera(k, c, r)
           \/ ImportBackup(k, records) \/ FlushBilling(k)
  <2>1. PICK name, arg, w :
           /\ name \in {"upsert", "import", "read"}
           /\ Begin(k, name, arg) /\ BeginWrite(k, w)
           /\ name = "upsert" => /\ arg = <<c, r>> /\ w = WriteOne(c, r, {c})
                                 /\ c \in Cameras /\ r \in Configs \cup {Disabled}
           /\ name = "read" => w = NoWrite
    BY <1>2, SMTT(20) DEF EditCamera, ImportBackup, FlushBilling, UpdateCameraTx, ImportJSON, BatchUpdateTraffic
  <2>2. /\ job[k] = "none" /\ job'[k] = name /\ target'[k] = arg
        /\ UNCHANGED <<streams, settings, syncFailed, closed>>
        /\ \A j \in Callers \ {k} : job'[j] = job[j] /\ target'[j] = target[j]
        /\ overlapped => overlapped'
        /\ overlapped' \/ \A j \in Callers \ {k} : job[j] = "none"
    BY <2>1, BeginStep, SMTT(20) DEF Jobs
  <2>3. /\ call'[k] = "commit" /\ write'[k] = w /\ cachedCameras' = NoList
        /\ UNCHANGED <<db, list, ok>>
        /\ write' = [j \in Callers |-> write'[j]]
        /\ \A j \in Callers \ {k} : call'[j] = call[j] /\ write'[j] = write[j]
    BY <2>1, BeginWriteStep
  <2>4. Others(k)
    BY <2>2, <2>3 DEF Others
  <2>5. ListSound(k)'
    BY <2>2, <2>3 DEF ListSound, Written
  <2>6. RequestSound(k)'
    <3>1. CASE name = "upsert"
      <4>1. w.records = [d \in Cameras |-> IF d = c THEN r ELSE Keep]
        BY <2>1, <3>1, OneWrite, SMTT(20)
      <4>2. target'[k][1] = c /\ target'[k][2] = r
        BY <1>a, <2>1, <2>2, <3>1
      <4>3. QED
        BY <2>1, <2>2, <2>3, <3>1, <4>1, <4>2 DEF RequestSound, Wanted
    <3>2. CASE name = "read"
      BY <2>1, <2>2, <2>3, <3>2, SMTT(20) DEF RequestSound, NoWrite
    <3>3. CASE name = "import"
      BY <2>2, <3>3 DEF RequestSound
    <3>4. QED
      BY <2>1, <3>1, <3>2, <3>3
  <2>7. Due(k) = {}
    BY <2>2 DEF Due
  <2>8. QED
    BY <1>b, <2>2, <2>3, <2>4, <2>5, <2>6, <2>7, CallKeepsStepInv
<1>3. CASE GetCameras(k)
  <2>1. Begin(k, "read", <<>>) /\ ListCameras(k)
    BY <1>3 DEF GetCameras
  <2>2. /\ job[k] = "none" /\ job'[k] = "read" /\ UNCHANGED <<streams, settings, syncFailed, closed>>
        /\ \A j \in Callers \ {k} : job'[j] = job[j] /\ target'[j] = target[j]
        /\ overlapped => overlapped'
        /\ overlapped' \/ \A j \in Callers \ {k} : job[j] = "none"
    BY <2>1, BeginStep DEF Jobs
  <2>3. /\ UNCHANGED <<db, write, cachedCameras>>
        /\ list' = [j \in Callers |-> list'[j]] /\ ok' \in [Callers -> BOOLEAN]
        /\ \A j \in Callers \ {k} : call'[j] = call[j] /\ list'[j] = list[j] /\ ok'[j] = ok[j]
        /\ call'[k] \in {"view", "returned"}
    BY <2>1, ListCamerasStep
  <2>4. Others(k)
    BY <2>2, <2>3 DEF Others
  <2>5. RequestSound(k)' /\ ListSound(k)'
    BY <2>2, <2>3 DEF RequestSound, ListSound, Written
  <2>6. Due(k) = {}
    BY <2>2 DEF Due
  <2>7. QED
    BY <1>b, <1>c, <2>2, <2>3, <2>4, <2>5, <2>6, CallKeepsStepInv
<1>4. QED
  BY <1>1, <1>2, <1>3

(* A request that calls the store after its first step.                    *)
LEMMA SecondCallKeepsStepInv ==
    ASSUME CallSound, ManagerInv, StepInv, NEW k \in Callers,
           AddCameraSave(k) \/ RemoveCameraDelete(k) \/ ImportList(k)
    PROVE  StepInv'
<1>b. /\ write = [j \in Callers |-> write[j]] /\ list = [j \in Callers |-> list[j]]
      /\ ok \in [Callers -> BOOLEAN] /\ RequestSound(k) /\ job \in [Callers -> Jobs]
  BY DEF StepInv, RequestsSound, CallSound
<1>c. Alone => cachedCameras = NoList \/ cachedCameras = db
  BY DEF Alone
<1>1. CASE AddCameraSave(k) \/ RemoveCameraDelete(k)
  <2>1. PICK name, w :
           /\ name \in {"upsert", "remove"} /\ BeginWrite(k, w)
           /\ job[k] \in {"check-add", "check-delete"} /\ job' = [job EXCEPT ![k] = name]
           /\ name = "upsert" => job[k] = "check-add" /\ w = WriteOne(target[k][1], target[k][2], {})
           /\ name = "remove" => w = WriteOne(target[k][1], NoCamera, {})
           /\ UNCHANGED <<target, streams, settings, syncFailed, closed, overlapped>>
    BY <1>1 DEF AddCameraSave, RemoveCameraDelete, SaveCamera, DeleteCamera, registryVars
  <2>2. job'[k] = name /\ \A j \in Callers \ {k} : job'[j] = job[j]
    BY <1>b, <2>1
  <2>3. /\ call'[k] = "commit" /\ write'[k] = w /\ cachedCameras' = NoList
        /\ UNCHANGED <<db, list, ok>>
        /\ write' = [j \in Callers |-> write'[j]]
        /\ \A j \in Callers \ {k} : call'[j] = call[j] /\ write'[j] = write[j]
    BY <2>1, BeginWriteStep
  <2>4. Others(k)
    BY <2>1, <2>2, <2>3 DEF Others
  <2>5. ListSound(k)'
    BY <2>3 DEF ListSound, Written
  <2>6. target[k][1] \in Cameras /\ (job[k] = "check-add" => target[k][2] \in Configs \cup {Disabled})
    BY <1>b, <2>1 DEF ManagerInv, RegistryTypes, OneCamera, RequestSound
  <2>7. w.records = [d \in Cameras |-> IF d = target[k][1] THEN (IF name = "upsert" THEN target[k][2] ELSE NoCamera)
                                                           ELSE Keep]
    BY <2>1, <2>6, OneWrite, SMTT(20)
  <2>8. RequestSound(k)'
    BY <2>1, <2>2, <2>3, <2>6, <2>7 DEF RequestSound, Wanted
  <2>9. Due(k) = {}
    BY <2>1 DEF Due
  <2>10. QED
    BY <1>b, <2>1, <2>3, <2>4, <2>5, <2>8, <2>9, CallKeepsStepInv
<1>2. CASE ImportList(k)
  <2>1. /\ job[k] = "list" /\ job' = [job EXCEPT ![k] = "sync"] /\ ListCameras(k)
        /\ UNCHANGED <<target, streams, settings, syncFailed, closed, overlapped>>
    BY <1>2 DEF ImportList, registryVars
  <2>2. job'[k] = "sync" /\ \A j \in Callers \ {k} : job'[j] = job[j]
    BY <1>b, <2>1
  <2>3. /\ UNCHANGED <<db, write, cachedCameras>>
        /\ list' = [j \in Callers |-> list'[j]] /\ ok' \in [Callers -> BOOLEAN]
        /\ \A j \in Callers \ {k} : call'[j] = call[j] /\ list'[j] = list[j] /\ ok'[j] = ok[j]
        /\ call'[k] = "view" \/ (call'[k] = "returned" /\ cachedCameras # NoList /\ list'[k] = cachedCameras)
    BY <2>1, ListCamerasStep
  <2>4. Others(k)
    BY <2>1, <2>2, <2>3 DEF Others
  <2>5. RequestSound(k)' /\ (Alone => ListSound(k)')
    BY <1>c, <2>2, <2>3 DEF RequestSound, ListSound, Written
  <2>6. \A c \in Due(k) : c \in Due(k)'
    BY <2>2 DEF Due
  <2>7. QED
    BY <1>b, <1>c, <2>1, <2>3, <2>4, <2>5, <2>6, CallKeepsStepInv
<1>3. QED
  BY <1>1, <1>2

(* A call of the store goes on; all but the commit of a transaction leave  *)
(* the records alone.                                                      *)
LEMMA ReadingKeepsStepInv ==
    ASSUME CallSound, StepInv, NEW k \in Callers, UNCHANGED managerVars,
           CommitFails(k) \/ View(k) \/ ViewFails(k) \/ Fill(k)
    PROVE  StepInv'
<1>a. /\ UNCHANGED <<job, target, streams, settings, closed, syncFailed, overlapped, db, write>>
      /\ call[k] \in {"commit", "view", "fill"}
  BY DEF managerVars, CommitFails, View, ViewFails, Fill
<1>b. /\ write = [j \in Callers |-> write[j]] /\ list = [j \in Callers |-> list[j]]
      /\ ok \in [Callers -> BOOLEAN] /\ RequestSound(k) /\ call = [j \in Callers |-> call[j]]
  BY DEF StepInv, RequestsSound, CallSound
<1>c. Alone => (cachedCameras = NoList \/ cachedCameras = db) /\ ListSound(k)
  BY DEF Alone
<1>d. job[k] # "none" /\ (\A c \in Due(k) : c \in Due(k)')
  BY <1>a DEF CallSound, Calling, Due, Written
<1>1. /\ list' = [j \in Callers |-> list'[j]] /\ ok' \in [Callers -> BOOLEAN]
      /\ \A j \in Callers \ {k} : call'[j] = call[j] /\ list'[j] = list[j] /\ ok'[j] = ok[j]
      /\ call'[k] # "commit" /\ (call[k] = "commit" => call'[k] = "returned")
  BY <1>b DEF CommitFails, View, ViewFails, Fill
<1>2. Others(k)
  BY <1>a, <1>1 DEF Others
<1>3. RequestSound(k)'
  BY <1>a, <1>b, <1>1 DEF RequestSound, Wanted
<1>4. Alone => (cachedCameras' = NoList \/ cachedCameras' = db) /\ ListSound(k)'
  <2>1. CASE CommitFails(k) \/ ViewFails(k)
    <3>1. call'[k] = "returned" /\ ok'[k] = FALSE /\ UNCHANGED cachedCameras
      BY <1>b, <2>1 DEF CommitFails, ViewFails
    <3>2. QED
      BY <1>c, <3>1 DEF ListSound, Written
  <2>2. CASE View(k)
    <3>1. call'[k] = "fill" /\ list'[k] = db /\ UNCHANGED cachedCameras
      BY <1>b, <2>2 DEF View
    <3>2. QED
      BY <1>a, <1>c, <3>1 DEF ListSound, Written
  <2>3. CASE Fill(k)
    <3>1. call[k] = "fill" /\ call'[k] = "returned" /\ UNCHANGED list /\ cachedCameras' = list[k]
      BY <1>b, <2>3 DEF Fill
    <3>2. job[k] \notin {"upsert", "remove"}
      BY <1>b, <3>1 DEF RequestSound
    <3>3. QED
      BY <1>a, <1>c, <3>1, <3>2 DEF ListSound, Written
  <2>4. QED
    BY <2>1, <2>2, <2>3
<1>5. QED
  BY <1>a, <1>b, <1>d, <1>1, <1>2, <1>3, <1>4, CallKeepsStepInv

LEMMA CommitKeepsStepInv ==
    ASSUME CallSound, ManagerInv, StepInv, NEW k \in Callers, UNCHANGED managerVars, Commit(k)
    PROVE  StepInv'
<1>a. /\ UNCHANGED <<job, target, streams, settings, closed, syncFailed, overlapped>>
      /\ UNCHANGED <<cachedCameras, write, list>> /\ call[k] = "commit"
  BY DEF managerVars, Commit
<1>b. /\ write = [j \in Callers |-> write[j]] /\ list = [j \in Callers |-> list[j]]
      /\ ok \in [Callers -> BOOLEAN] /\ RequestSound(k) /\ call = [j \in Callers |-> call[j]]
  BY DEF StepInv, RequestsSound, CallSound
<1>1. PICK succeeds \in BOOLEAN :
         /\ call' = [call EXCEPT ![k] = "returned"] /\ ok' = [ok EXCEPT ![k] = succeeds]
         /\ db' = [c \in Cameras |-> IF succeeds /\ write[k].records[c] # Keep
                                       THEN write[k].records[c] ELSE db[c]]
  BY DEF Commit
<1>2. /\ call'[k] = "returned" /\ ok'[k] = succeeds /\ ok' \in [Callers -> BOOLEAN]
      /\ \A j \in Callers \ {k} : call'[j] = call[j] /\ ok'[j] = ok[j]
  BY <1>b, <1>1
<1>3. Others(k)
  BY <1>a, <1>2 DEF Others
<1>4. RequestSound(k)'
  BY <1>a, <1>b, <1>2 DEF RequestSound, Wanted
<1>5. RequestsSound'
  <2>1. \A j \in Callers : RequestSound(j)'
    BY <1>3, <1>4, OthersSound DEF StepInv, RequestsSound
  <2>2. db' = [c \in Cameras |-> db'[c]]
    BY <1>1
  <2>3. QED
    BY <1>a, <1>b, <1>2, <2>1, <2>2 DEF RequestsSound
<1>6. job[k] \in {"upsert", "remove"} =>
         target[k][1] \in Cameras /\ (succeeds => db'[target[k][1]] = Wanted(k))
  <2>1. SUFFICES ASSUME job[k] \in {"upsert", "remove"}
                 PROVE  target[k][1] \in Cameras /\ (succeeds => db'[target[k][1]] = Wanted(k))
    OBVIOUS
  <2>2. PICK t : t = target[k][1]
    OBVIOUS
  <2>3. t \in Cameras
    BY <2>1, <2>2 DEF ManagerInv, RegistryTypes, OneCamera
  <2>4. Wanted(k) # Keep
    BY <1>b, <2>1, RecordsAssumption DEF RequestSound, Wanted
  <2>5. write[k].records[t] = Wanted(k)
    BY <1>b, <2>1, <2>2, <2>3 DEF RequestSound
  <2>6. QED
    BY <1>1, <2>2, <2>3, <2>4, <2>5
<1>7. ASSUME ~overlapped'
      PROVE  Alone'
  <2>1. Alone
    BY <1>a, <1>7 DEF StepInv
  <2>2. cachedCameras' = NoList
    BY <1>a, <2>1 DEF Alone, ListSound
  <2>3. job[k] \notin {"none", "sync"}
    BY <1>a, <1>b DEF CallSound, Calling, RequestSound
  <2>4. Wanted(k)' = Wanted(k)
    BY <1>a DEF Wanted
  <2>5. ListSound(k)'
    BY <1>a, <1>2, <1>6, <2>3, <2>4 DEF ListSound, Written
  <2>6. QED
    BY <1>3, <2>1, <2>2, <2>3, <2>5, AloneKept
<1>8. ASSUME ~overlapped', ~closed', ~syncFailed'
      PROVE  Attended'
  <2>1. Attended
    BY <1>a, <1>8 DEF StepInv
  <2>2. Due(k) = {}
    BY <1>a, <1>b DEF CallSound, Calling, RequestSound, Due, Written
  <2>3. SUFFICES ASSUME NEW c \in Cameras
                 PROVE  InStep(c)' \/ \E j \in Callers : c \in Due(j)'
    BY DEF Attended
  <2>4. CASE db'[c] # db[c]
    <3>1. succeeds /\ write[k].records[c] # Keep
      BY <1>1, <2>4
    <3>2. job[k] \in {"upsert", "remove", "import"}
      BY <1>a, <1>b, <3>1 DEF CallSound, Calling, RequestSound
    <3>3. job[k] \in {"upsert", "remove"} => c = target[k][1]
      BY <1>b, <3>1 DEF RequestSound
    <3>4. c \in Due(k)'
      BY <1>a, <1>2, <3>1, <3>2, <3>3 DEF Due, Written
    <3>5. QED
      BY <3>4
  <2>5. CASE db'[c] = db[c] /\ InStep(c)
    BY <1>a, <2>5 DEF InStep, Matches
  <2>6. CASE \E j \in Callers : c \in Due(j)
    <3>1. PICK j \in Callers : c \in Due(j)
      BY <2>6
    <3>2. c \in Due(j)'
      BY <2>2, <3>1, <1>3, SMTT(20) DEF Others, Due, Written
    <3>3. QED
      BY <3>2
  <2>7. QED
    BY <2>1, <2>4, <2>5, <2>6 DEF Attended
<1>9. QED
  BY <1>5, <1>7, <1>8 DEF StepInv

LEMMA TakeResultStep ==
    ASSUME CallSound, StepInv, NEW k \in Callers, TakeResult(k)
    PROVE  /\ call[k] = "returned" /\ call'[k] = "idle" /\ UNCHANGED <<db, cachedCameras, ok>>
           /\ write' = [j \in Callers |-> write'[j]] /\ list' = [j \in Callers |-> list'[j]]
           /\ \A j \in Callers \ {k} : call'[j] = call[j] /\ write'[j] = write[j] /\ list'[j] = list[j]
BY DEF TakeResult, CallSound, StepInv, RequestsSound

(* Imported, Fail, the end of a request, and stopping streams.             *)
LEMMA AnsweredKeepsStepInv ==
    ASSUME CallSound, ManagerInv, StepInv, NEW k \in Callers, NEW s,
           Imported(k) \/ Fail(k) \/ Respond(k) \/ StopStream(k, s)
    PROVE  StepInv'
<1>b. /\ write = [j \in Callers |-> write[j]] /\ list = [j \in Callers |-> list[j]]
      /\ ok \in [Callers -> BOOLEAN] /\ RequestSound(k) /\ call = [j \in Callers |-> call[j]]
      /\ job \in [Callers -> Jobs] /\ target = [j \in Callers |-> target[j]]
  BY DEF StepInv, RequestsSound, CallSound, ManagerInv, RegistryTypes
<1>c. Alone => cachedCameras = NoList \/ cachedCameras = db
  BY DEF Alone
<1>1. CASE Imported(k) \/ Fail(k)
  <2>1. /\ TakeResult(k) /\ job' = [job EXCEPT ![k] = job'[k]] /\ target' = [target EXCEPT ![k] = target'[k]]
        /\ job'[k] \in {"none", "list"} /\ UNCHANGED <<streams, settings, closed, overlapped>>
        /\ syncFailed => syncFailed'
    <3>1. CASE Imported(k)
      BY <3>1, <1>b DEF Imported, Then, registryVars
    <3>2. CASE Fail(k)
      BY <3>2, <1>b DEF Fail
    <3>3. QED
      BY <1>1, <3>1, <3>2
  <2>2. /\ call[k] = "returned" /\ call'[k] = "idle" /\ UNCHANGED <<db, cachedCameras, ok>>
        /\ write' = [j \in Callers |-> write'[j]] /\ list' = [j \in Callers |-> list'[j]]
        /\ \A j \in Callers \ {k} : call'[j] = call[j] /\ write'[j] = write[j] /\ list'[j] = list[j]
    BY <2>1, TakeResultStep
  <2>3. Others(k)
    BY <1>b, <2>1, <2>2 DEF Others
  <2>4. job[k] # "none" /\ RequestSound(k)' /\ ListSound(k)'
    BY <2>1, <2>2 DEF CallSound, Calling, RequestSound, ListSound, Written
  <2>5. \A c \in Due(k) : syncFailed' \/ c \in Due(k)'
    <3>1. CASE Imported(k)
      BY <3>1, <1>b DEF Imported, Then, Due
    <3>2. CASE Fail(k)
      BY <3>2, <2>2 DEF Fail, Due, Written, CallSound, Calling
    <3>3. QED
      BY <1>1, <3>1, <3>2
  <2>6. QED
    BY <1>b, <1>c, <2>1, <2>2, <2>3, <2>4, <2>5, CallKeepsStepInv
<1>2. CASE Respond(k) \/ StopStream(k, s)
  <2>1. /\ job' = [job EXCEPT ![k] = job'[k]] /\ target' = [target EXCEPT ![k] = target'[k]]
        /\ job'[k] \in {"none", "stop"} /\ job[k] = "stop"
        /\ UNCHANGED <<streams, settings, closed, overlapped, syncFailed>>
        /\ UNCHANGED <<db, cachedCameras, call, write, list, ok>>
    BY <1>2, <1>b DEF Respond, StopStream, registryVars, requestVars, storeVars
  <2>2. Others(k)
    BY <1>b, <2>1 DEF Others
  <2>3. RequestSound(k)' /\ ListSound(k)' /\ Due(k) = {}
    BY <2>1 DEF CallSound, Calling, RequestSound, ListSound, Written, Due
  <2>4. QED
    BY <1>b, <1>c, <2>1, <2>2, <2>3, CallKeepsStepInv
<1>3. QED
  BY <1>1, <1>2

(* A request that has brought the streams in step goes on to stop streams. *)
LEMMA SettledKeepsStepInv ==
    ASSUME CallSound, ManagerInv, StepInv, NEW k \in Callers, TakeResult(k), job[k] # "none",
           job' = [job EXCEPT ![k] = "stop"], UNCHANGED <<target, closed, overlapped>>,
           ~overlapped /\ ~closed /\ ~syncFailed' => \A c \in Cameras : InStep(c)'
    PROVE  StepInv'
<1>a. /\ call'[k] = "idle" /\ UNCHANGED <<db, cachedCameras, ok>>
      /\ write' = [j \in Callers |-> write'[j]] /\ list' = [j \in Callers |-> list'[j]]
      /\ \A j \in Callers \ {k} : call'[j] = call[j] /\ write'[j] = write[j] /\ list'[j] = list[j]
  BY TakeResultStep
<1>b. job'[k] = "stop" /\ \A j \in Callers \ {k} : job'[j] = job[j]
  BY DEF CallSound, Jobs
<1>1. Others(k)
  BY <1>a, <1>b DEF Others
<1>2. RequestSound(k)' /\ ListSound(k)'
  BY <1>a, <1>b DEF RequestSound, ListSound, Written
<1>3. RequestsSound'
  <2>1. \A j \in Callers : RequestSound(j)'
    BY <1>1, <1>2, OthersSound DEF StepInv, RequestsSound
  <2>2. QED
    BY <1>a, <2>1 DEF StepInv, RequestsSound
<1>4. ASSUME ~overlapped
      PROVE  Alone'
  <2>1. Alone /\ (cachedCameras' = NoList \/ cachedCameras' = db')
    BY <1>4, <1>a DEF StepInv, Alone
  <2>2. QED
    BY <1>1, <1>2, <2>1, AloneKept
<1>5. QED
  BY <1>3, <1>4 DEF StepInv, Attended

(* While a request is alone, only its own cameras are out of step.         *)
LEMMA OwnCameras ==
    ASSUME Alone, Attended, NEW k \in Callers, job[k] # "none", NEW c \in Cameras, c \notin Due(k)
    PROVE  InStep(c)
<1>1. \A j \in Callers \ {k} : Due(j) = {}
  BY DEF Alone, OneAtATime, Due
<1>2. QED
  BY <1>1 DEF Attended

LEMMA OthersStreams ==
    ASSUME ManagerInv, NEW c \in Cameras, NEW d \in Cameras, c # d
    PROVE  streams[c] \notin Current(d)
BY DEF ManagerInv, RegistryExact, Current

LEMMA UpsertKeepsStepInv ==
    ASSUME CallSound, ManagerInv, StepInv, NEW k \in Callers, Upsert(k) \/ Remove(k)
    PROVE  StepInv'
<1>a. /\ ok[k] /\ TakeResult(k) /\ job[k] \in {"upsert", "remove"} /\ job' = [job EXCEPT ![k] = "stop"]
      /\ UNCHANGED <<target, closed, overlapped, syncFailed>>
  BY DEF Upsert, Remove, Then
<1>b. call[k] = "returned" /\ UNCHANGED db
  BY <1>a, TakeResultStep
<1>1. PICK t : t = target[k][1]
  OBVIOUS
<1>2. PICK r : r = Wanted(k)
  OBVIOUS
<1>3. t \in Cameras
  BY <1>a, <1>1 DEF ManagerInv, RegistryTypes, OneCamera
<1>4. r \in Configs \cup {Disabled, NoCamera}
  BY <1>a, <1>2 DEF StepInv, RequestsSound, RequestSound, Wanted
<1>5. \/ r \notin Configs /\ Register(k, <<>>, Current(t))
      \/ r \in Configs /\ Matches(t, r) /\ Register(k, <<>>, {})
      \/ r \in Configs /\ Register(k, [d \in {t} |-> r], Current(t))
  <2>1. CASE Upsert(k)
    <3>1. r = target[k][2] /\ UpsertStream(k, t, r) /\ r \in Configs \cup {Disabled}
      BY <2>1, <1>1, <1>2 DEF Upsert, Then, Wanted, StepInv, RequestsSound, RequestSound
    <3>2. QED
      BY <3>1, RecordsAssumption DEF UpsertStream
  <2>2. CASE Remove(k)
    BY <2>2, <1>1, <1>2, RecordsAssumption DEF Remove, Then, Wanted
  <2>3. QED
    BY <2>1, <2>2
<1>6. ASSUME ~overlapped, ~closed, ~syncFailed'
      PROVE  \A c \in Cameras : InStep(c)'
  <2>1. Alone /\ Attended
    BY <1>6, <1>a DEF StepInv
  <2>2. db[t] = r
    BY <1>a, <1>b, <1>1, <1>2, <2>1 DEF Alone, ListSound, Written
  <2>3. ASSUME NEW c \in Cameras, c # t
        PROVE  InStep(c) /\ streams[c] \notin Current(t)
    <3>1. c \notin Due(k)
      BY <1>a, <1>1, <2>3 DEF Due
    <3>2. QED
      BY <1>a, <1>3, <2>1, <2>3, <3>1, OwnCameras, OthersStreams
  <2>4. DOMAIN <<>> = {} /\ DOMAIN [d \in {t} |-> r] = {t} /\ [d \in {t} |-> r][t] = r
    BY SMTT(20)
  <2>5. SUFFICES ASSUME NEW c \in Cameras
                 PROVE  InStep(c)'
    OBVIOUS
  <2>6. CASE r \notin Configs /\ Register(k, <<>>, Current(t))
    BY <1>b, <2>2, <2>3, <2>4, <2>6, RegisterInStep
  <2>7. CASE r \in Configs /\ Matches(t, r) /\ Register(k, <<>>, {})
    <3>1. InStep(t)
      BY <2>2, <2>7 DEF InStep
    <3>2. QED
      BY <1>b, <2>3, <2>4, <2>7, <3>1, RegisterInStep
  <2>8. CASE r \in Configs /\ Register(k, [d \in {t} |-> r], Current(t))
    <3>1. PICK want : want = [d \in {t} |-> r]
      OBVIOUS
    <3>2. DOMAIN want = {t} /\ want[t] = r /\ Register(k, want, Current(t))
      BY <2>4, <2>8, <3>1
    <3>3. QED
      BY <1>b, <1>3, <2>2, <2>3, <2>8, <3>2, RegisterInStep
  <2>9. QED
    BY <1>5, <2>6, <2>7, <2>8
<1>7. QED
  BY <1>a, <1>6, SettledKeepsStepInv

LEMMA SyncKeepsStepInv ==
    ASSUME CallSound, ManagerInv, StepInv, NEW k \in Callers, Sync(k)
    PROVE  StepInv'
<1>a. /\ ok[k] /\ TakeResult(k) /\ job[k] = "sync" /\ job' = [job EXCEPT ![k] = "stop"]
      /\ UNCHANGED <<target, closed, overlapped>>
  BY DEF Sync, Then
<1>b. call[k] = "returned" /\ UNCHANGED db
  BY <1>a, TakeResultStep
<1>1. ASSUME ~overlapped
      PROVE  \A c \in Cameras : InStep(c)'
  <2>1. list[k] = db
    BY <1>a, <1>b, <1>1 DEF StepInv, Alone, ListSound, Written
  <2>2. PICK want : want = {c \in Cameras : db[c] \in Configs /\ ~Matches(c, db[c])}
    OBVIOUS
  <2>3. PICK gone : gone = {c \in Cameras : db[c] \notin Configs}
    OBVIOUS
  <2>4. PICK out : out = UNION {Current(c) : c \in want \cup gone}
    OBVIOUS
  <2>5. PICK start : start = [c \in want |-> db[c]]
    OBVIOUS
  <2>6. Register(k, start, out)
    BY <2>1, <2>2, <2>3, <2>4, <2>5 DEF Sync, SyncWithStorage
  <2>7. SUFFICES ASSUME NEW c \in Cameras
                 PROVE  InStep(c)'
    OBVIOUS
  <2>8. DOMAIN start = want /\ want \subseteq Cameras /\ gone \subseteq Cameras
    BY <2>2, <2>3, <2>5
  <2>9. CASE c \in want
    BY <1>b, <2>2, <2>5, <2>6, <2>8, <2>9, RegisterInStep, SMTT(20)
  <2>10. CASE c \in gone
    <3>1. c \notin want /\ db[c] \notin Configs /\ Current(c) \subseteq out
      BY <2>2, <2>3, <2>4, <2>10
    <3>2. QED
      BY <1>b, <2>6, <2>8, <3>1, RegisterInStep
  <2>11. CASE c \notin want \cup gone
    <3>1. InStep(c)
      BY <2>2, <2>3, <2>11 DEF InStep
    <3>2. \A d \in want \cup gone : streams[c] \notin Current(d)
      BY <2>8, <2>11, OthersStreams
    <3>3. streams[c] \notin out
      BY <2>4, <3>2
    <3>4. QED
      BY <1>b, <2>6, <2>8, <2>11, <3>1, <3>3, RegisterInStep
  <2>12. QED
    BY <2>9, <2>10, <2>11
<1>2. QED
  BY <1>a, <1>1, SettledKeepsStepInv

(* Close leaves the store, and every call there, alone.                    *)
LEMMA CloseKeepsStepInv ==
    ASSUME CallSound, ManagerInv, StepInv, NEW k \in Callers, Close(k)
    PROVE  StepInv'
<1>1. /\ \A j \in Callers : job[j] = "none"
      /\ closed' = TRUE /\ job' = [job EXCEPT ![k] = "stop"]
      /\ UNCHANGED <<db, cachedCameras, call, write, list, ok, target, overlapped>>
  BY DEF Close, storeVars
<1>2. job'[k] = "stop" /\ call[k] = "idle" /\ \A j \in Callers \ {k} : job'[j] = job[j]
  BY <1>1 DEF CallSound, Calling, Jobs
<1>3. Others(k)
  BY <1>1, <1>2 DEF Others
<1>4. RequestSound(k)' /\ ListSound(k)'
  BY <1>1, <1>2 DEF RequestSound, ListSound, Written
<1>5. RequestsSound'
  <2>1. \A j \in Callers : RequestSound(j)'
    BY <1>3, <1>4, OthersSound DEF StepInv, RequestsSound
  <2>2. QED
    BY <1>1, <2>1 DEF StepInv, RequestsSound
<1>6. ASSUME ~overlapped
      PROVE  Alone'
  <2>1. Alone /\ (cachedCameras' = NoList \/ cachedCameras' = db')
    BY <1>6, <1>1 DEF StepInv, Alone
  <2>2. QED
    BY <1>1, <1>3, <1>4, <2>1, AloneKept
<1>7. QED
  BY <1>1, <1>5, <1>6 DEF StepInv

LEMMA StepInvInit == Init => StepInv
<1> SUFFICES ASSUME Init
             PROVE  StepInv
  OBVIOUS
<1>1. RequestsSound
  BY DEF Init, StoreInit, RequestsSound, RequestSound
<1>2. Alone
  BY DEF Init, StoreInit, Alone, OneAtATime, ListSound, Written
<1>3. Attended
  BY RecordsAssumption DEF Init, StoreInit, Attended, InStep
<1>4. QED
  BY <1>1, <1>2, <1>3 DEF StepInv

LEMMA StepInvNext == CallSound /\ ManagerInv /\ StepInv /\ [Next]_vars => StepInv'
<1> SUFFICES ASSUME CallSound, ManagerInv, StepInv, [Next]_vars
             PROVE  StepInv'
  OBVIOUS
<1>1. CASE UNCHANGED vars
  <2>1. UNCHANGED <<db, cachedCameras, call, write, list, ok, job, target, streams, settings, closed,
                    syncFailed, overlapped>>
    BY <1>1 DEF vars, storeVars, managerVars
  <2>2. RequestsSound' = RequestsSound
    BY <2>1, SMTT(20) DEF RequestsSound, RequestSound, Wanted
  <2>3. Alone' = Alone
    BY <2>1, SMTT(20) DEF Alone, OneAtATime, ListSound, Written, Wanted
  <2>4. Attended' = Attended
    BY <2>1, SMTT(20) DEF Attended, InStep, Matches, Due, Written
  <2>5. QED
    BY <2>1, <2>2, <2>3, <2>4 DEF StepInv
<1>2. ASSUME NEW k \in Callers, NEW c \in Cameras, NEW r \in Configs \cup {Disabled},
             AddCamera(k, c, r) \/ EditCamera(k, c, r)
      PROVE  StepInv'
  BY <1>2, BeginKeepsStepInv
<1>3. ASSUME NEW k \in Callers, NEW c \in Cameras, RemoveCamera(k, c)
      PROVE  StepInv'
  BY <1>3, BeginKeepsStepInv
<1>4. ASSUME NEW k \in Callers, NEW records, ImportBackup(k, records) \/ GetCameras(k) \/ FlushBilling(k)
      PROVE  StepInv'
  BY <1>4, BeginKeepsStepInv
<1>5. ASSUME NEW k \in Callers, AddCameraSave(k) \/ RemoveCameraDelete(k) \/ ImportList(k)
      PROVE  StepInv'
  BY <1>5, SecondCallKeepsStepInv
<1>6. ASSUME NEW k \in Callers, StoreStep(k), UNCHANGED managerVars
      PROVE  StepInv'
  BY <1>6, ReadingKeepsStepInv, CommitKeepsStepInv DEF StoreStep
<1>7. ASSUME NEW k \in Callers, Upsert(k) \/ Remove(k) \/ Sync(k) \/ Close(k)
      PROVE  StepInv'
  BY <1>7, UpsertKeepsStepInv, SyncKeepsStepInv, CloseKeepsStepInv
<1>8. ASSUME NEW k \in Callers, Imported(k) \/ Fail(k) \/ Respond(k)
      PROVE  StepInv'
  BY <1>8, AnsweredKeepsStepInv
<1>9. ASSUME NEW k \in Callers, NEW s \in Streams, StopStream(k, s)
      PROVE  StepInv'
  BY <1>9, AnsweredKeepsStepInv
<1>10. CASE Next
  BY <1>1, <1>2, <1>3, <1>4, <1>5, <1>6, <1>7, <1>8, <1>9, <1>10 DEF Next, Terminated
<1>11. QED
  BY <1>1, <1>10

(* Requests that come one after the other, whatever errors the store       *)
(* answers them with, leave every camera with the stream that its record   *)
(* asks for (UpsertStream, RemoveStream, SyncWithStorage), unless an       *)
(* import could not list the cameras, and the cached list of ListCameras   *)
(* as the database has it.                                                 *)
THEOREM SequentialRequestsInStep == Spec => []OneAtATimeInStep
<1>1. Init => CallSound /\ ManagerInv /\ StepInv
  BY CallInit, InitInv, StepInvInit
<1>2. CallSound /\ ManagerInv /\ StepInv /\ [Next]_vars => CallSound' /\ ManagerInv' /\ StepInv'
  BY CallNext, NextInv, StepInvNext
<1>3. StepInv => OneAtATimeInStep
  <2> SUFFICES ASSUME StepInv, ~overlapped
               PROVE  Converged /\ FreshReads
    BY DEF OneAtATimeInStep
  <2>1. FreshReads
    BY DEF StepInv, Alone, FreshReads
  <2>2. Converged
    <3>1. SUFFICES ASSUME \A k \in Callers : job[k] = "none", ~closed, ~syncFailed, NEW c \in Cameras
                   PROVE  InStep(c)
      BY DEF Converged, InStep
    <3>2. \A k \in Callers : Due(k) = {}
      BY <3>1 DEF Due
    <3>3. QED
      BY <3>1, <3>2 DEF StepInv, Attended
  <2>3. QED
    BY <2>1, <2>2
<1>4. QED
  BY <1>1, <1>2, <1>3, PTL DEF Spec
=============================================================================
