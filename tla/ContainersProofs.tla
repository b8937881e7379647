--------------------------- MODULE ContainersProofs ---------------------------
(***************************************************************************)
(* Theorems about Containers, for any containers, any number of calls that  *)
(* overlap in any way, and any bound of faults.                             *)
(***************************************************************************)
EXTENDS Containers, TLAPS

Step(c) == Invoke(c) \/ CreateStep(c) \/ RemoveStep(c) \/ RemovalEnds(c) \/ RemovalAnswered(c)

LEMMA StepOfCall == [Next]_vars => (\E c \in Call : Step(c)) \/ UNCHANGED vars
BY DEF Next, Step

\* Type correctness: no call ends but with an answer, whatever fails.
LEMMA TypeInit == Init => TypeOK
BY ContainerAssumption DEF Init, TypeOK, Status

LEMMA FaultsBounded ==
    ASSUME faults \in 0..MaxFaults, faults < MaxFaults, faults' = faults + 1
    PROVE  faults' \in 0..MaxFaults
BY ContainerAssumption

LEMMA TypeStep == ASSUME TypeOK, NEW c \in Call, Step(c) PROVE TypeOK'
<1> USE ContainerAssumption DEF TypeOK, Status, Creating, Removing, Underway, Ended, dockerVars, Goto
<1>1. CASE Invoke(c)
    BY <1>1 DEF Invoke
<1>2. CASE Find(c)
    BY <1>2 DEF Find, Get, Named
<1>3. CASE ForceRemove(c)
    BY <1>3 DEF ForceRemove, BeginRemoval
<1>4. CASE Run(c)
    <2>1. named' \in [Name -> Call \cup {None}]
        BY <1>4 DEF Run
    <2>2. status' \in [Call -> Status]
        BY <1>4 DEF Run
    <2>3. at' \in [Call -> {"new"} \cup Underway \cup Ended]
        <3>1. at' = [at EXCEPT ![c] = "start"] \/ at' = [at EXCEPT ![c] = "failed"]
            BY ONLY <1>4 DEF Run, Goto
        <3>2. at \in [Call -> {"new"} \cup Underway \cup Ended]
            BY ONLY TypeOK DEF TypeOK
        <3> QED
            BY ONLY <3>1, <3>2 DEF Underway, Creating, Ended
    <2> QED
        BY ONLY <1>4, <2>1, <2>2, <2>3, TypeOK DEF Run, TypeOK
<1>5. CASE Start(c)
    BY <1>5 DEF Start
<1>6. CASE Upload(c)
    BY <1>6 DEF Upload
<1>7. CASE CreateFails(c)
    <2>1. faults' \in 0..MaxFaults
        BY <1>7, FaultsBounded DEF CreateFails
    <2>2. at' \in [Call -> {"new"} \cup Underway \cup Ended]
        BY <1>7 DEF CreateFails
    <2> QED
        BY ONLY <1>7, <2>1, <2>2, TypeOK DEF CreateFails, TypeOK, dockerVars
<1>8. CASE FindStop(c)
    BY <1>8 DEF FindStop, Get, Named
<1>9. CASE Stop(c)
    <2>1. status' \in [Call -> Status]
        BY <1>9 DEF Stop
    <2> QED
        BY <1>9, <2>1 DEF Stop
<1>10. CASE FindRemove(c)
    BY <1>10 DEF FindRemove, Get, Named
<1>11. CASE Remove(c)
    BY <1>11 DEF Remove, BeginRemoval
<1>12. CASE RemoveFails(c)
    <2>1. faults' \in 0..MaxFaults
        BY <1>12, FaultsBounded DEF RemoveFails
    <2>2. at' \in [Call -> {"new"} \cup Underway \cup Ended]
        BY <1>12 DEF RemoveFails
    <2> QED
        BY ONLY <1>12, <2>1, <2>2, TypeOK DEF RemoveFails, TypeOK, dockerVars
<1>13. CASE RemovalEnds(c)
    BY <1>13 DEF RemovalEnds
<1>14. CASE RemovalAnswered(c)
    BY <1>14 DEF RemovalAnswered
<1> QED
    BY <1>1, <1>2, <1>3, <1>4, <1>5, <1>6, <1>7, <1>8, <1>9, <1>10, <1>11, <1>12, <1>13, <1>14
       DEF Step, CreateStep, RemoveStep

LEMMA TypeNext == TypeOK /\ [Next]_vars => TypeOK'
<1>1. ASSUME TypeOK, UNCHANGED vars PROVE TypeOK'
    BY <1>1 DEF vars, TypeOK
<1> QED
    BY <1>1, TypeStep, StepOfCall

THEOREM TypeCorrect == Spec => []TypeOK
BY TypeInit, TypeNext, PTL DEF Spec

----------------------------------------------------------------------------
(***************************************************************************)
(* The tool of a call tells the steps it can be at, and keys go where they  *)
(* belong.                                                                  *)
(***************************************************************************)
RouteInv == \A c \in Call :
    /\ at[c] \in Creating => Tool[c] = "create"
    /\ at[c] \in Removing => Tool[c] = "remove"

KeyInv == TypeOK /\ RouteInv /\ ReportedKeyInstalled

LEMMA KeyInit == Init => KeyInv
BY TypeInit, ContainerAssumption
   DEF Init, KeyInv, RouteInv, ReportedKeyInstalled, Creating, Removing

LEMMA RouteStep == ASSUME TypeOK, RouteInv, NEW c \in Call, Step(c) PROVE RouteInv'
<1> USE ContainerAssumption DEF TypeOK, RouteInv, Creating, Removing, Goto
<1>1. CASE Invoke(c) \/ RemovalEnds(c) \/ RemovalAnswered(c)
    BY <1>1 DEF Invoke, RemovalEnds, RemovalAnswered
<1>2. CASE Find(c) \/ ForceRemove(c) \/ Run(c)
    BY <1>2 DEF Find, Get, ForceRemove, BeginRemoval, Run
<1>3. CASE Start(c) \/ Upload(c) \/ CreateFails(c)
    BY <1>3 DEF Start, Upload, CreateFails
<1>4. CASE FindStop(c) \/ Stop(c) \/ FindRemove(c)
    BY <1>4 DEF FindStop, Get, Stop, FindRemove
<1>5. CASE Remove(c) \/ RemoveFails(c)
    BY <1>5 DEF Remove, BeginRemoval, RemoveFails
<1> QED
    BY <1>1, <1>2, <1>3, <1>4, <1>5 DEF Step, CreateStep, RemoveStep

LEMMA KeyStep ==
    ASSUME TypeOK, RouteInv, ReportedKeyInstalled, NEW c \in Call, Step(c)
    PROVE  ReportedKeyInstalled'
<1> USE ContainerAssumption DEF TypeOK, RouteInv, ReportedKeyInstalled, Creating, Removing, Goto, dockerVars
<1>1. CASE Invoke(c) \/ RemovalEnds(c) \/ RemovalAnswered(c)
    BY <1>1 DEF Invoke, RemovalEnds, RemovalAnswered
<1>2. CASE Find(c) \/ ForceRemove(c) \/ Run(c)
    BY <1>2 DEF Find, Get, ForceRemove, BeginRemoval, Run
<1>3. CASE Start(c) \/ Upload(c) \/ CreateFails(c)
    BY <1>3 DEF Start, Upload, CreateFails
<1>4. CASE FindStop(c) \/ Stop(c) \/ FindRemove(c)
    BY <1>4 DEF FindStop, Get, Stop, FindRemove
<1>5. CASE Remove(c) \/ RemoveFails(c)
    BY <1>5 DEF Remove, BeginRemoval, RemoveFails
<1> QED
    BY <1>1, <1>2, <1>3, <1>4, <1>5 DEF Step, CreateStep, RemoveStep

LEMMA KeyNext == KeyInv /\ [Next]_vars => KeyInv'
<1>1. ASSUME KeyInv, UNCHANGED vars PROVE KeyInv'
    BY <1>1 DEF vars, KeyInv, TypeOK, RouteInv, ReportedKeyInstalled
<1>2. ASSUME KeyInv, NEW c \in Call, Step(c) PROVE KeyInv'
    BY <1>2, TypeStep, RouteStep, KeyStep DEF KeyInv
<1> QED
    BY <1>1, <1>2, StepOfCall

\* Whatever calls overlap, a private key is only ever in the container its own
\* call made, and an answer with a public key means the private one is there.
THEOREM KeysInstalled == Spec => []ReportedKeyInstalled
<1>1. KeyInv => ReportedKeyInstalled
    BY DEF KeyInv
<1> QED
    BY <1>1, KeyInit, KeyNext, PTL DEF Spec
----------------------------------------------------------------------------
(***************************************************************************)
(* Overlapping create calls.  A name is held from the creation of its       *)
(* container to the end of its removal; while create calls are the only ones *)
(* made for it, either its container is on the way to success, or a call is  *)
(* on the way to create the next one.                                       *)
(***************************************************************************)
Live == {"created", "running", "stopped", "removing"}

FoundInv == \A c \in Call :
    at[c] \in {"force", "stop", "remove", "removal"} =>
        found[c] \in Call /\ NameOf[found[c]] = NameOf[c] /\ status[found[c]] # "none"

NamedInv == \A n \in Name :
    named[n] # None => NameOf[named[n]] = n /\ status[named[n]] \in Live

HeldInv == \A k \in Call :
    /\ status[k] \in Live => named[NameOf[k]] = k
    /\ status[k] # "none" => at[k] \in {"start", "upload"} \cup Ended

OnlyCreates(n) ==
    faults = 0 /\ \A c \in Call : NameOf[c] = n /\ Tool[c] = "remove" => at[c] = "new"

\* c will create the next container named n
Pending(c, n) ==
    NameOf[c] = n /\ Tool[c] = "create" /\ at[c] \in {"find", "force", "run", "removal"}

Succeeding(k, n) ==
    \/ status[k] = "created" /\ at[k] = "start"
    \/ status[k] = "running" /\ at[k] = "upload"
    \/ status[k] = "running" /\ at[k] = "ok" /\ key[k] = k
    \/ status[k] = "removing" /\ \E c \in Call : Pending(c, n) /\ at[c] = "removal" /\ found[c] = k

Race(n) ==
    \/ named[n] \in Call /\ Succeeding(named[n], n)
    \/ named[n] = None /\ \A c \in Call : NameOf[c] = n => at[c] = "new"
    \/ named[n] = None /\ \E c \in Call : Pending(c, n)

RaceTypes == TypeOK /\ RouteInv /\ FoundInv /\ NamedInv /\ HeldInv

RaceInv == RaceTypes /\ \A n \in Name : OnlyCreates(n) => Race(n)

LEMMA GotoOnly ==
    ASSUME TypeOK, NEW c \in Call, NEW l, Goto(c, l)
    PROVE  at'[c] = l /\ \A k \in Call \ {c} : at'[k] = at[k]
BY DEF TypeOK, Goto

LEMMA StopOnly ==
    ASSUME TypeOK, NEW c \in Call, Stop(c)
    PROVE  \A k \in Call :
        status'[k] = IF k = found[c] /\ status[k] = "running" THEN "stopped" ELSE status[k]
<1>1. status' = [status EXCEPT ![found[c]] =
                    IF status[found[c]] = "running" THEN "stopped" ELSE status[found[c]]]
    BY DEF Stop
<1>2. status \in [Call -> Status]
    BY DEF TypeOK
<1> QED
    BY ONLY <1>1, <1>2

\* a call that has made no container changes nothing but its own place
LEMMA HeldFrame ==
    ASSUME TypeOK, HeldInv, NEW c \in Call, NEW l, Goto(c, l),
           at[c] \notin {"start", "upload"} \cup Ended, UNCHANGED <<status, named>>
    PROVE  HeldInv'
<1>1. status[c] = "none"
    BY DEF HeldInv, TypeOK
<1>2. \A k \in Call \ {c} : at'[k] = at[k]
    BY GotoOnly
<1> QED
    BY ONLY <1>1, <1>2, HeldInv, UNCHANGED <<status, named>> DEF HeldInv, Live

LEMMA FoundGet ==
    ASSUME TypeOK, FoundInv, NamedInv, NEW c \in Call, NEW l, NEW m, Get(c, l, m),
           m \notin {"force", "stop", "remove", "removal"}
    PROVE  FoundInv'
<1>1. /\ found'[c] = named[NameOf[c]]
      /\ \A k \in Call \ {c} : found'[k] = found[k]
      /\ status' = status
    BY DEF Get, Named, TypeOK, dockerVars
<1>2. /\ at'[c] = IF named[NameOf[c]] = None THEN m ELSE l
      /\ \A k \in Call \ {c} : at'[k] = at[k]
    BY GotoOnly DEF Get, Named
<1>3. NameOf[c] \in Name /\ named[NameOf[c]] \in Call \cup {None}
    BY ContainerAssumption DEF TypeOK
<1>4. at'[c] \in {"force", "stop", "remove", "removal"} =>
        found'[c] \in Call /\ NameOf[found'[c]] = NameOf[c] /\ status'[found'[c]] # "none"
    BY ONLY <1>1, <1>2, <1>3, NamedInv, m \notin {"force", "stop", "remove", "removal"}
       DEF NamedInv, Live
<1> QED
    BY ONLY <1>1, <1>2, <1>4, FoundInv DEF FoundInv

LEMMA FoundStep ==
    ASSUME TypeOK, NamedInv, FoundInv, NEW c \in Call, Step(c)
    PROVE  FoundInv'
<1> USE ContainerAssumption DEF TypeOK, FoundInv, NamedInv, Live, Creating, Removing, Ended, Goto, dockerVars
<1>1. CASE Invoke(c)
    BY <1>1 DEF Invoke
<1>2. CASE Find(c)
    BY <1>2, FoundGet DEF Find
<1>3. CASE ForceRemove(c)
    BY <1>3 DEF ForceRemove, BeginRemoval
<1>4. CASE Run(c)
    BY <1>4 DEF Run, Named
<1>5. CASE Start(c)
    BY <1>5 DEF Start
<1>6. CASE Upload(c)
    BY <1>6 DEF Upload
<1>7. CASE CreateFails(c)
    BY <1>7 DEF CreateFails
<1>8. CASE FindStop(c)
    BY <1>8, FoundGet DEF FindStop
<1>9. CASE Stop(c)
    BY <1>9 DEF Stop
<1>10. CASE FindRemove(c)
    BY <1>10, FoundGet DEF FindRemove
<1>11. CASE Remove(c)
    BY <1>11 DEF Remove, BeginRemoval
<1>12. CASE RemoveFails(c)
    BY <1>12 DEF RemoveFails
<1>13. CASE RemovalEnds(c)
    BY <1>13 DEF RemovalEnds
<1>14. CASE RemovalAnswered(c)
    BY <1>14 DEF RemovalAnswered
<1> QED
    BY <1>1, <1>2, <1>3, <1>4, <1>5, <1>6, <1>7, <1>8, <1>9, <1>10, <1>11, <1>12, <1>13, <1>14
       DEF Step, CreateStep, RemoveStep

LEMMA NamedStep ==
    ASSUME TypeOK, NamedInv, FoundInv, HeldInv, NEW c \in Call, Step(c)
    PROVE  NamedInv'
<1> USE ContainerAssumption DEF TypeOK, FoundInv, NamedInv, HeldInv, Live, Ended, Goto, dockerVars
<1>1. CASE Invoke(c)
    BY <1>1 DEF Invoke
<1>2. CASE Find(c)
    BY <1>2 DEF Find, Get, Named
<1>3. CASE ForceRemove(c)
    BY <1>3 DEF ForceRemove, BeginRemoval
<1>4. CASE Run(c)
    BY <1>4 DEF Run, Named
<1>5. CASE Start(c)
    BY <1>5 DEF Start
<1>6. CASE Upload(c)
    BY <1>6 DEF Upload
<1>7. CASE CreateFails(c)
    BY <1>7 DEF CreateFails
<1>8. CASE FindStop(c)
    BY <1>8 DEF FindStop, Get, Named
<1>9. CASE Stop(c)
    <2>1. \A k \in Call : status[k] \in Live => status'[k] \in Live
        BY ONLY <1>9, TypeOK, StopOnly DEF Live
    <2>2. named' = named /\ named \in [Name -> Call \cup {None}]
        BY <1>9 DEF Stop
    <2> QED
        BY ONLY <2>1, <2>2, NamedInv DEF NamedInv
<1>10. CASE FindRemove(c)
    BY <1>10 DEF FindRemove, Get, Named
<1>11. CASE Remove(c)
    BY <1>11 DEF Remove, BeginRemoval
<1>12. CASE RemoveFails(c)
    BY <1>12 DEF RemoveFails
<1>13. CASE RemovalEnds(c)
    BY <1>13 DEF RemovalEnds
<1>14. CASE RemovalAnswered(c)
    BY <1>14 DEF RemovalAnswered
<1> QED
    BY <1>1, <1>2, <1>3, <1>4, <1>5, <1>6, <1>7, <1>8, <1>9, <1>10, <1>11, <1>12, <1>13, <1>14
       DEF Step, CreateStep, RemoveStep

LEMMA HeldStep ==
    ASSUME TypeOK, NamedInv, FoundInv, HeldInv, NEW c \in Call, Step(c)
    PROVE  HeldInv'
<1> USE ContainerAssumption DEF TypeOK, FoundInv, NamedInv, HeldInv, Live, Creating, Removing, Ended, Goto, dockerVars
<1>1. CASE Invoke(c)
    BY <1>1, HeldFrame DEF Invoke
<1>2. CASE Find(c)
    BY <1>2 DEF Find, Get, Named
<1>3. CASE ForceRemove(c)
    <2>1. found[c] \in Call /\ status[c] = "none" /\ status[found[c]] # "none"
        BY <1>3 DEF ForceRemove
    <2>2. \A k \in Call \ {c} : at'[k] = at[k]
        BY <1>3, GotoOnly DEF ForceRemove, BeginRemoval
    <2>3. CASE UNCHANGED status
        BY ONLY <1>3, <2>1, <2>2, <2>3, HeldInv DEF ForceRemove, HeldInv, Live
    <2>4. CASE status[found[c]] \notin {"removing", "removed"} /\ BeginRemoval(c)
        <3>1. \A k \in Call : (status'[k] \in Live => status[k] \in Live)
                               /\ (status'[k] # "none" => status[k] # "none")
            BY <2>1, <2>4 DEF BeginRemoval, Status
        <3> QED
            BY ONLY <1>3, <2>1, <2>2, <3>1, HeldInv DEF ForceRemove, HeldInv
    <2> QED
        BY <1>3, <2>3, <2>4 DEF ForceRemove
<1>4. CASE Run(c)
    BY <1>4 DEF Run, Named
<1>5. CASE Start(c)
    BY <1>5 DEF Start
<1>6. CASE Upload(c)
    BY <1>6 DEF Upload
<1>7. CASE CreateFails(c)
    BY <1>7 DEF CreateFails
<1>8. CASE FindStop(c)
    BY <1>8, HeldFrame DEF FindStop, Get
<1>9. CASE Stop(c)
    <2>1. found[c] \in Call /\ status[c] = "none" /\ status[found[c]] # "none"
        BY <1>9 DEF Stop
    <2>2. \A k \in Call \ {c} : at'[k] = at[k]
        BY <1>9, GotoOnly DEF Stop
    <2>3. \A k \in Call : (status'[k] \in Live => status[k] \in Live)
                           /\ (status'[k] # "none" => status[k] # "none")
        BY ONLY <1>9, TypeOK, StopOnly DEF Live
    <2> QED
        BY ONLY <1>9, <2>1, <2>2, <2>3, HeldInv DEF Stop, HeldInv
<1>10. CASE FindRemove(c)
    BY <1>10, HeldFrame DEF FindRemove, Get
<1>11. CASE Remove(c)
    BY <1>11 DEF Remove, BeginRemoval
<1>12. CASE RemoveFails(c)
    BY <1>12, HeldFrame DEF RemoveFails
<1>13. CASE RemovalEnds(c)
    BY <1>13 DEF RemovalEnds
<1>14. CASE RemovalAnswered(c)
    BY <1>14 DEF RemovalAnswered
<1> QED
    BY <1>1, <1>2, <1>3, <1>4, <1>5, <1>6, <1>7, <1>8, <1>9, <1>10, <1>11, <1>12, <1>13, <1>14
       DEF Step, CreateStep, RemoveStep

\* a call for another name leaves name n and its containers alone
SameName(n) ==
    /\ named'[n] = named[n]
    /\ \A k \in Call : NameOf[k] = n =>
        at'[k] = at[k] /\ status'[k] = status[k] /\ key'[k] = key[k] /\ found'[k] = found[k]

LEMMA OtherName ==
    ASSUME RaceTypes, NEW n \in Name, NEW c \in Call, NameOf[c] # n, Step(c)
    PROVE  SameName(n)
<1> USE ContainerAssumption DEF RaceTypes, TypeOK, SameName, Goto, dockerVars
<1>1. CASE Invoke(c) \/ Find(c) \/ CreateFails(c)
    BY <1>1 DEF Invoke, Find, Get, CreateFails
<1>2. CASE FindStop(c) \/ FindRemove(c) \/ RemoveFails(c) \/ RemovalAnswered(c)
    BY <1>2 DEF FindStop, Get, FindRemove, RemoveFails, RemovalAnswered
<1>3. CASE ForceRemove(c) \/ Remove(c)
    <2>1. NameOf[found[c]] # n
        BY <1>3 DEF ForceRemove, Remove, FoundInv
    <2> QED
        BY <1>3, <2>1 DEF ForceRemove, Remove, BeginRemoval
<1>4. CASE Run(c) \/ Start(c) \/ Upload(c)
    BY <1>4 DEF Run, Start, Upload
<1>5. CASE Stop(c)
    <2>1. NameOf[found[c]] # n
        BY <1>5 DEF Stop, FoundInv
    <2>2. \A k \in Call : NameOf[k] = n => status'[k] = status[k]
        BY ONLY <1>5, <2>1, TypeOK, StopOnly
    <2> QED
        BY <1>5, <2>2 DEF Stop
<1>6. CASE RemovalEnds(c)
    BY <1>6 DEF RemovalEnds, HeldInv, NamedInv
<1> QED
    BY <1>1, <1>2, <1>3, <1>4, <1>5, <1>6 DEF Step, CreateStep, RemoveStep

\* a name for which other calls than creates were made stays such a name
LEMMA Monotone ==
    ASSUME RaceTypes, NEW n \in Name, NEW c \in Call, Step(c), OnlyCreates(n)'
    PROVE  OnlyCreates(n)
<1> USE ContainerAssumption DEF RaceTypes, TypeOK, OnlyCreates, Goto, dockerVars
<1>1. faults = 0
    <2>1. UNCHANGED faults \/ (faults < MaxFaults /\ faults' = faults + 1)
        BY ONLY Step(c)
           DEF Step, CreateStep, RemoveStep, Invoke, Find, Get, ForceRemove, Run, Start, Upload,
               CreateFails, FindStop, Stop, FindRemove, Remove, RemoveFails, RemovalEnds,
               RemovalAnswered
    <2>2. faults \in Nat /\ faults' = 0
        BY DEF RaceTypes, TypeOK, OnlyCreates
    <2> QED
        BY ONLY <2>1, <2>2
<1>2. at'[c] # "new" \/ at' = at
    BY DEF Step, CreateStep, RemoveStep, Invoke, Find, Get, ForceRemove, BeginRemoval, Run, Start,
           Upload, CreateFails, FindStop, Stop, FindRemove, Remove, RemoveFails, RemovalEnds,
           RemovalAnswered
<1>3. \A k \in Call \ {c} : at'[k] = at[k]
    BY DEF Step, CreateStep, RemoveStep, Invoke, Find, Get, ForceRemove, BeginRemoval, Run, Start,
           Upload, CreateFails, FindStop, Stop, FindRemove, Remove, RemoveFails, RemovalEnds,
           RemovalAnswered
<1>4. \A k \in Call : at'[k] = "new" => at[k] = "new"
    BY ONLY <1>2, <1>3
<1> QED
    BY ONLY <1>1, <1>4, OnlyCreates(n)' DEF OnlyCreates

LEMMA OtherNameRace ==
    ASSUME RaceTypes, NEW n \in Name, SameName(n), Race(n)
    PROVE  Race(n)'
<1>1. named'[n] = named[n] /\ \A c \in Call : Pending(c, n) => Pending(c, n)'
    BY DEF SameName, Pending
<1>2. CASE named[n] \in Call /\ Succeeding(named[n], n)
    <2> DEFINE k == named[n]
    <2>1. /\ k \in Call /\ NameOf[k] = n
          /\ at'[k] = at[k] /\ status'[k] = status[k] /\ key'[k] = key[k]
        BY <1>2, ContainerAssumption DEF RaceTypes, NamedInv, SameName
    <2>2. \A c \in Call : Pending(c, n) => at'[c] = at[c] /\ found'[c] = found[c]
        BY DEF SameName, Pending
    <2>3. Succeeding(k, n)'
        BY ONLY <1>1, <1>2, <2>1, <2>2 DEF Succeeding
    <2> QED
        BY ONLY <1>1, <2>1, <2>3 DEF Race
<1>3. CASE named[n] = None /\ \A c \in Call : NameOf[c] = n => at[c] = "new"
    BY <1>1, <1>3 DEF Race, SameName
<1>4. CASE named[n] = None /\ \E c \in Call : Pending(c, n)
    BY ONLY <1>1, <1>4 DEF Race
<1> QED
    BY ONLY <1>2, <1>3, <1>4, Race(n) DEF Race

\* c moves, and neither it nor its removal is what the name depends on
LEMMA KeepRace ==
    ASSUME NEW n \in Name, NEW c \in Call, NEW k \in Call, k # c,
           named[n] = k, Succeeding(k, n),
           named'[n] = named[n], status'[k] = status[k], key'[k] = key[k],
           \A d \in Call \ {c} : at'[d] = at[d] /\ found'[d] = found[d],
           at[c] = "removal" => status[found[c]] # "removing"
    PROVE  Race(n)'
<1>1. CASE status[k] = "removing" /\ \E d \in Call : Pending(d, n) /\ at[d] = "removal" /\ found[d] = k
    <2>1. PICK d \in Call : Pending(d, n) /\ at[d] = "removal" /\ found[d] = k
        BY <1>1
    <2>2. d # c
        BY <1>1, <2>1
    <2>3. Pending(d, n)' /\ at'[d] = "removal" /\ found'[d] = k
        BY <2>1, <2>2 DEF Pending
    <2> QED
        BY <1>1, <2>3 DEF Race, Succeeding
<1> QED
    BY <1>1 DEF Race, Succeeding

LEMMA RaceStep ==
    ASSUME RaceTypes, NEW n \in Name, NEW c \in Call, NameOf[c] = n, Tool[c] = "create",
           faults = 0, faults' = 0, Step(c), Race(n)
    PROVE  Race(n)'
<1> DEFINE k == named[n]
<1>1. /\ \A d \in Call \ {c} : at'[d] = at[d] /\ found'[d] = found[d]
      /\ None \notin Call
    BY ContainerAssumption
       DEF RaceTypes, TypeOK, Goto, dockerVars,
           Step, CreateStep, RemoveStep, Invoke, Find, Get, ForceRemove, BeginRemoval, Run, Start,
           Upload, CreateFails, FindStop, Stop, FindRemove, Remove, RemoveFails, RemovalEnds,
           RemovalAnswered
<1>2. \/ Invoke(c) \/ Find(c) \/ ForceRemove(c) \/ Run(c) \/ Start(c) \/ Upload(c)
      \/ RemovalEnds(c) \/ RemovalAnswered(c)
    <2>1. ~CreateFails(c) /\ ~RemoveFails(c)
        BY DEF CreateFails, RemoveFails
    <2>2. at[c] \notin Removing
        BY DEF RaceTypes, RouteInv
    <2>3. ~FindStop(c) /\ ~Stop(c) /\ ~FindRemove(c) /\ ~Remove(c)
        BY ONLY <2>2 DEF FindStop, Stop, FindRemove, Remove, Removing
    <2> QED
        BY ONLY <2>1, <2>3, Step(c) DEF Step, CreateStep, RemoveStep
<1>3. k \in Call => status[k] \in Live /\ NameOf[k] = n
    BY <1>1 DEF RaceTypes, NamedInv
<1>4. \A d \in Call : status[d] \in Live => NameOf[d] # n \/ d = k
    BY DEF RaceTypes, HeldInv
<1>5. at[c] \notin {"start", "upload"} \cup Ended => status[c] = "none" /\ (k \in Call => k # c)
    BY <1>3 DEF RaceTypes, HeldInv, TypeOK, Live
<1>6. k \in Call => Succeeding(k, n)
    BY <1>1 DEF Race
<1>7. k \in Call \/ k = None
    BY DEF RaceTypes, TypeOK
<1>8. ASSUME at'[c] \in {"find", "force", "run"}, k = None, named'[n] = None PROVE Race(n)'
    BY <1>8 DEF Race, Pending
<1>9. CASE Invoke(c)
    <2>1. at[c] = "new" /\ at'[c] = "find" /\ UNCHANGED dockerVars
        BY <1>9, GotoOnly DEF Invoke, RaceTypes
    <2> QED
        BY <1>1, <1>5, <1>6, <1>7, <1>8, <2>1, KeepRace DEF dockerVars, Ended
<1>10. CASE Find(c)
    <2>1. /\ at[c] = "find" /\ at'[c] = (IF k = None THEN "run" ELSE "force")
          /\ UNCHANGED dockerVars
        BY <1>10, GotoOnly DEF Find, Get, Named, RaceTypes
    <2> QED
        BY <1>1, <1>5, <1>6, <1>7, <1>8, <2>1, KeepRace DEF dockerVars, Ended
<1>11. CASE ForceRemove(c)
    <2> DEFINE f == found[c]
    <2>1. /\ at[c] = "force" /\ f \in Call /\ NameOf[f] = n
          /\ status[f] # "none" /\ UNCHANGED <<named, key, found>>
        BY <1>11 DEF ForceRemove, RaceTypes, FoundInv
    <2>2. CASE status[f] = "removed" /\ Goto(c, "run") /\ UNCHANGED status
        <3>1. at'[c] = "run"
            BY <2>2, GotoOnly DEF RaceTypes
        <3> QED
            BY <1>1, <1>5, <1>6, <1>7, <1>8, <2>1, <2>2, <3>1, KeepRace DEF Ended
    <2>3. CASE status[f] = "removing" /\ Goto(c, "failed") /\ UNCHANGED status
        <3>1. f = k
            BY <1>4, <2>1, <2>3 DEF Live
        <3> QED
            BY <1>1, <1>5, <1>6, <2>1, <2>3, <3>1, KeepRace DEF Ended
    <2>4. CASE status[f] \notin {"removing", "removed"} /\ BeginRemoval(c)
        <3>1. f = k
            BY <1>4, <2>1, <2>4 DEF Live, RaceTypes, TypeOK, Status
        <3>2. at'[c] = "removal" /\ status'[f] = "removing" /\ found'[c] = f
            BY <2>1, <2>4, GotoOnly DEF BeginRemoval, RaceTypes, TypeOK
        <3> QED
            BY <2>1, <3>1, <3>2 DEF Race, Succeeding, Pending
    <2> QED
        BY <1>11, <2>2, <2>3, <2>4 DEF ForceRemove
<1>12. CASE Run(c)
    <2>1. CASE k = None
        <3>1. named'[n] = c /\ status'[c] = "created" /\ at'[c] = "start"
            BY <1>12, <2>1, GotoOnly DEF Run, Named, RaceTypes, TypeOK
        <3> QED
            BY <3>1 DEF Race, Succeeding
    <2>2. CASE k # None
        BY <1>1, <1>5, <1>6, <1>7, <1>12, <2>2, KeepRace DEF Run, Named, Ended
    <2> QED
        BY <2>1, <2>2
<1>13. ASSUME at[c] \in {"start", "upload"}, named'[n] = k, key' = key \/ key' = [key EXCEPT ![c] = c],
              \A d \in Call \ {c} : status'[d] = status[d],
              k = c => status[c] = "removing" /\ status'[c] = "removing"
       PROVE  Race(n)'
    <2>1. CASE k = None
        <3>1. PICK d \in Call : Pending(d, n)
            BY <1>1, <1>13, <2>1 DEF Race
        <3>2. Pending(d, n)'
            BY <1>1, <1>13, <3>1 DEF Pending
        <3> QED
            BY <1>13, <2>1, <3>2 DEF Race
    <2>2. CASE k \in Call \ {c}
        <3>1. key'[k] = key[k]
            BY <1>13, <2>2 DEF RaceTypes, TypeOK
        <3> QED
            BY <1>1, <1>6, <1>13, <2>2, <3>1, KeepRace
    <2>3. CASE k = c
        <3>1. PICK d \in Call : Pending(d, n) /\ at[d] = "removal" /\ found[d] = c
            BY <1>6, <1>13, <2>3 DEF Succeeding
        <3>2. d # c
            BY <1>13, <3>1
        <3>3. Pending(d, n)' /\ at'[d] = "removal" /\ found'[d] = c
            BY <1>1, <3>1, <3>2 DEF Pending
        <3> QED
            BY <1>13, <2>3, <3>3 DEF Race, Succeeding
    <2> QED
        BY <1>7, <2>1, <2>2, <2>3
<1>14. CASE Start(c)
    <2>1. at[c] = "start" /\ UNCHANGED <<named, key, found>>
        BY <1>14 DEF Start
    <2>2. CASE status[c] = "created"
        <3>1. k = c
            BY <1>4, <2>2 DEF Live
        <3>2. status'[c] = "running" /\ at'[c] = "upload"
            BY <1>14, <2>2, GotoOnly DEF Start, RaceTypes, TypeOK
        <3> QED
            BY <2>1, <3>1, <3>2 DEF Race, Succeeding
    <2>3. CASE status[c] # "created"
        <3>1. UNCHANGED status
            BY <1>14, <2>3 DEF Start
        <3>2. k = c => status[c] = "removing"
            BY <1>6, <2>1, <2>3 DEF Succeeding
        <3> QED
            BY <1>13, <2>1, <3>1, <3>2
    <2> QED
        BY <2>2, <2>3
<1>15. CASE Upload(c)
    <2>1. at[c] = "upload" /\ UNCHANGED <<named, status, found>>
        BY <1>15 DEF Upload
    <2>2. CASE k = c /\ status[c] = "running"
        <3>1. key'[c] = c /\ at'[c] = "ok"
            BY <1>15, <2>2, GotoOnly DEF Upload, RaceTypes, TypeOK
        <3> QED
            BY <2>1, <2>2, <3>1 DEF Race, Succeeding
    <2>3. CASE ~(k = c /\ status[c] = "running")
        <3>1. k = c => status[c] = "removing"
            BY <1>6, <2>1, <2>3 DEF Succeeding
        <3>2. key' = key \/ key' = [key EXCEPT ![c] = c]
            BY <1>15 DEF Upload
        <3> QED
            BY <1>13, <2>1, <3>1, <3>2
    <2> QED
        BY <2>2, <2>3
<1>16. CASE RemovalEnds(c)
    <2>1. k = c /\ status[c] = "removing" /\ at' = at
        BY <1>4, <1>16 DEF RemovalEnds, Live
    <2>2. named'[n] = None
        BY <1>16, <2>1 DEF RemovalEnds
    <2>3. PICK d \in Call : Pending(d, n)
        BY <1>6, <2>1 DEF Succeeding
    <2>4. Pending(d, n)'
        BY <2>1, <2>3 DEF Pending
    <2> QED
        BY <2>2, <2>4 DEF Race
<1>17. CASE RemovalAnswered(c)
    <2>1. /\ at[c] = "removal" /\ status[found[c]] = "removed" /\ at'[c] = "run"
          /\ UNCHANGED dockerVars
        BY <1>17, GotoOnly DEF RemovalAnswered, RaceTypes
    <2> QED
        BY <1>1, <1>5, <1>6, <1>7, <1>8, <2>1, KeepRace DEF dockerVars, Ended
<1> QED
    BY <1>2, <1>9, <1>10, <1>11, <1>12, <1>14, <1>15, <1>16, <1>17

LEMMA RaceNext == RaceInv /\ [Next]_vars => RaceInv'
<1>1. ASSUME RaceInv, UNCHANGED vars PROVE RaceInv'
    BY <1>1 DEF vars, RaceInv, RaceTypes, TypeOK, RouteInv, FoundInv, NamedInv, HeldInv,
                OnlyCreates, Race, Succeeding, Pending
<1>2. ASSUME RaceInv, NEW c \in Call, Step(c) PROVE RaceInv'
    <2>1. RaceTypes /\ RaceTypes'
        BY <1>2, TypeStep, RouteStep, FoundStep, NamedStep, HeldStep DEF RaceInv, RaceTypes
    <2>2. ASSUME NEW n \in Name, OnlyCreates(n)' PROVE Race(n)'
        <3>1. OnlyCreates(n) /\ Race(n)
            BY <1>2, <2>1, <2>2, Monotone DEF RaceInv
        <3>2. CASE NameOf[c] # n
            BY <1>2, <2>1, <3>1, <3>2, OtherName, OtherNameRace
        <3>3. CASE NameOf[c] = n /\ Tool[c] = "create"
            BY <1>2, <2>1, <2>2, <3>1, <3>3, RaceStep DEF OnlyCreates
        <3>4. CASE NameOf[c] = n /\ Tool[c] = "remove"
            <4>1. at[c] = "new" /\ at'[c] = "new"
                BY <2>2, <3>1, <3>4 DEF OnlyCreates
            <4>2. ~Invoke(c)
                BY <2>1, <4>1 DEF Invoke, Goto, RaceTypes, TypeOK
            <4>3. ~RemovalEnds(c)
                BY <2>1, <4>1 DEF RemovalEnds, RaceTypes, HeldInv, Ended
            <4> QED
                BY ONLY <1>2, <4>1, <4>2, <4>3
                   DEF Step, CreateStep, RemoveStep, Find, ForceRemove, Run, Start, Upload,
                       CreateFails, FindStop, Stop, FindRemove, Remove, RemoveFails,
                       RemovalAnswered, Creating, Removing
        <3> QED
            BY <3>2, <3>3, <3>4, ContainerAssumption
    <2> QED
        BY <2>1, <2>2 DEF RaceInv
<1> QED
    BY <1>1, <1>2, StepOfCall

LEMMA RaceInit == Init => RaceInv
BY TypeInit, ContainerAssumption
   DEF Init, RaceInv, RaceTypes, RouteInv, FoundInv, NamedInv, HeldInv, Race, Live,
       Creating, Removing

LEMMA RaceSettled == RaceInv => CreatesConverge
<1> SUFFICES ASSUME RaceInv, NEW n \in Name, faults = 0,
                    NEW d \in Call, NameOf[d] = n, at[d] # "new",
                    \A c \in Call : NameOf[c] = n /\ at[c] # "new" =>
                        Tool[c] = "create" /\ at[c] \in Ended
             PROVE  LET k == named[n] IN
                    /\ k \in Call /\ NameOf[k] = n /\ at[k] # "new"
                    /\ at[k] = "ok" /\ status[k] = "running" /\ key[k] = k
    BY DEF CreatesConverge
<1>1. OnlyCreates(n)
    BY DEF OnlyCreates
<1>2. \A c \in Call : ~Pending(c, n)
    BY DEF Pending, Ended
<1>3. named[n] \in Call /\ Succeeding(named[n], n)
    BY <1>1, <1>2 DEF RaceInv, Race
<1>4. NameOf[named[n]] = n
    BY <1>3, ContainerAssumption DEF RaceInv, RaceTypes, NamedInv
<1> QED
    BY <1>2, <1>3, <1>4 DEF Succeeding, Ended

\* However many create calls for a name overlap, without faults: once all have
\* answered, the name belongs to a running container of a call that succeeded.
THEOREM CreatesAlwaysConverge == Spec => []CreatesConverge
BY RaceInit, RaceNext, RaceSettled, PTL DEF Spec

----------------------------------------------------------------------------
(***************************************************************************)
(* What a removal may take away.                                            *)
(***************************************************************************)

LEMMA ReplacedStep ==
    ASSUME TypeOK, RouteInv, NEW c \in Call, Step(c),
           NEW k \in Call, status[k] = "running", status'[k] \in {"removing", "removed"}
    PROVE  \E d \in Call : Tool[d] = "create" /\ at[d] = "force" /\ at'[d] # "force"
<1>1. CASE ForceRemove(c)
    <2>1. at[c] = "force" /\ (at'[c] \in {"run", "failed", "removal"})
        BY <1>1 DEF ForceRemove, BeginRemoval, Goto, TypeOK
    <2>2. Tool[c] = "create"
        BY <2>1 DEF RouteInv, Creating
    <2> QED
        BY <2>1, <2>2
<1>2. CASE Run(c) \/ Start(c) \/ RemovalEnds(c)
    BY <1>2 DEF Run, Start, RemovalEnds, TypeOK
<1>3. CASE Stop(c)
    BY ONLY <1>3, TypeOK, StopOnly, status[k] = "running", status'[k] \in {"removing", "removed"}
<1>4. CASE Remove(c)
    BY <1>4 DEF Remove, BeginRemoval, TypeOK
<1>5. UNCHANGED status \/ ForceRemove(c) \/ Run(c) \/ Start(c) \/ Stop(c) \/ Remove(c) \/ RemovalEnds(c)
    BY DEF Step, CreateStep, RemoveStep, Invoke, Find, Get, Upload, CreateFails, FindStop,
           FindRemove, RemoveFails, RemovalAnswered, dockerVars
<1> QED
    BY <1>1, <1>2, <1>3, <1>4, <1>5

\* A running container disappears only for a create call that replaces it.
THEOREM OnlyReplaced == Spec => RunningOnlyReplaced
<1> DEFINE A == \A k \in Call : status[k] = "running" /\ status'[k] \in {"removing", "removed"} =>
              \E c \in Call : Tool[c] = "create" /\ at[c] = "force" /\ at'[c] # "force"
<1>1. KeyInv /\ [Next]_vars => [A]_vars
    BY ReplacedStep, StepOfCall DEF KeyInv
<1>2. Spec => [][A]_vars
    BY <1>1, KeyInit, KeyNext, PTL DEF Spec
<1> QED
    BY <1>2 DEF RunningOnlyReplaced
=============================================================================
