------------------------- MODULE FileTransferProofs -------------------------
(***************************************************************************)
(* Proofs, for every number of senders, handlers and names, and whatever   *)
(* candidate paths the names share, that the per-name gate works, that     *)
(* what is delivered is intact, that only an upload of another name can    *)
(* replace it, and that SendFile reports success only of what arrived.     *)
(***************************************************************************)
EXTENDS FileTransfer, FiniteSetTheorems, TLAPS

\* A handler has a sender as soon as it runs, and a gate from acquire to release.
HandlerInv ==
    \A h \in Handlers :
        /\ hd[h].pc # "free" => hd[h].by \in Senders
        /\ hd[h].pc \in {"free", "acquire"} <=> hd[h].gate = NoGate
        /\ hd[h].res = "done" => hd[h].by \in Senders

\* A handler's gate is the one its name has in the map, and no other name has it.
GateOfName ==
    /\ \A h \in Handlers : hd[h].gate # NoGate => locks[NameOfH(h)] = hd[h].gate
    /\ \A m, n \in Names : locks[m] = locks[n] /\ locks[m] # NoGate => m = n

\* nameGate.n counts the handlers that refer to the gate.
Users(g) == {h \in Handlers : hd[h].gate = g}
CountInv == \A g \in Gates : count[g] = Cardinality(Users(g))

\* Who is between Lock and Unlock holds the mutex of its gate.
HolderInv ==
    \A h \in Handlers : hd[h].pc \in Critical \cup {"unlock"} => holder[hd[h].gate] = h

\* A SendFile that still runs has budget left.
BudgetInv ==
    \A s \in Senders : snd[s].pc \notin {"ok", "failed"} =>
        snd[s].attempt <= MaxRetries /\ snd[s].conflicts <= MaxConflicts

\* A handler about to rename has the sender's whole file before it.
RenameInv ==
    \A h \in Handlers : hd[h].pc = "rename" =>
        /\ part[NameOfH(h)] = File(hd[h].by)
        /\ hd[h].dest \in DOMAIN Cands[NameOfH(h)]

\* The inductive invariant of the gates and the files.
IInv ==
    /\ TypeOK
    /\ HandlerInv
    /\ GateOfName
    /\ CountInv
    /\ HolderInv
    /\ GatesPruned
    /\ BudgetInv
    /\ RenameInv
    /\ DeliveredIsIntact

\* The destination that uniquePath found free may be taken when the file is renamed,
\* but only by uploads of other names.
DestFresh ==
    \A h \in Handlers : hd[h].pc = "rename" =>
        LET p == Cands[NameOfH(h)][hd[h].dest]
        IN  p \notin Present /\ \A s \in put[p] : NameOf[s] # NameOfH(h)

\* Success is reported only of what has been delivered.
SuccessInv ==
    /\ \A h \in Handlers : hd[h].res = "done" => Arrived(hd[h].by)
    /\ \A s \in Senders : snd[s].reply = "done" \/ snd[s].pc = "ok" => Arrived(s)

\* The inductive invariant of the deliveries.
DInv == IInv /\ DestFresh /\ SuccessInv

-----------------------------------------------------------------------------
(* Handlers, gates and files.                                              *)

Results == {"none", "done", "progress", "conflict", "error"}
HandlerPcs == Critical \cup {"free", "acquire", "lock", "unlock", "leave"}
HandlerRec == [pc : HandlerPcs, by : Senders \cup {NoSender}, off : Nat, cur : Nat, got : Nat,
               gate : Gates \cup {NoGate}, dest : Nat, live : BOOLEAN, res : Results]
SenderRec == [pc : {"idle", "query", "put", "wait", "ok", "failed"}, off : Nat,
              attempt : 0..MaxRetries + 1, conflicts : 0..MaxConflicts + 1, reply : Results]

\* Only handler h changes, into r.
Becomes(h, r) ==
    /\ hd' \in [Handlers -> HandlerRec]
    /\ hd'[h] = r
    /\ \A i \in Handlers : i # h => hd'[i] = hd[i]

LEMMA HandlerTypes ==
    ASSUME TypeOK
    PROVE  /\ hd \in [Handlers -> HandlerRec]
           /\ snd \in [Senders -> SenderRec]
           /\ Idle \in HandlerRec
           /\ MaxConflicts \in Nat
BY FilesAssumption DEF TypeOK, HandlerRec, HandlerPcs, SenderRec, Results, Idle, MaxConflicts

LEMMA BecomesEffect ==
    ASSUME TypeOK, NEW h \in Handlers, NEW r \in HandlerRec, hd' = [hd EXCEPT ![h] = r]
    PROVE  Becomes(h, r)
BY HandlerTypes DEF Becomes

\* A complete file differs from no file.
LEMMA FileIsSomething ==
    ASSUME NEW s \in Senders
    PROVE  File(s) \in Contents /\ File(s) # NoFile
<1> DEFINE k == Size[s]
<1>1. k \in Nat
  BY FilesAssumption
<1>2. \A i \in 1..k : Byte(s, i) \in (Senders \cup {NoSender}) \X Nat
  BY <1>1 DEF Byte
<1>3. File(s) \in [1..k -> (Senders \cup {NoSender}) \X Nat]
  BY <1>2 DEF File
<1>4. File(s) \in Contents
  BY <1>1, <1>3 DEF Contents
<1>5. ASSUME File(s) = NoFile PROVE FALSE
  <2>1. DOMAIN File(s) = 1..k /\ DOMAIN NoFile = 1..1 /\ NoFile[1] = Byte(NoSender, 0)
    BY DEF File, NoFile
  <2>2. 1 \in 1..k
    BY <1>1, <1>5, <2>1
  <2>3. File(s)[1] = Byte(s, 1)
    BY <2>2 DEF File
  <2>4. Byte(s, 1) = Byte(NoSender, 0)
    BY <1>5, <2>1, <2>3
  <2> QED
    BY <2>4, SendersAssumption DEF Byte
<1> QED
  BY <1>4, <1>5

\* A handler that runs has a name.
LEMMA NameType ==
    ASSUME HandlerInv, NEW h \in Handlers, hd[h].pc # "free"
    PROVE  hd[h].by \in Senders /\ NameOfH(h) \in Names
BY FilesAssumption DEF HandlerInv, NameOfH

\* The gate of a name admits one handler: the inductive invariant gives exclusion.
LEMMA Exclusion ==
    ASSUME HandlerInv, GateOfName, HolderInv, TypeOK,
           NEW h \in Handlers, NEW i \in Handlers,
           hd[h].pc \in Critical \cup {"unlock"}, hd[i].pc \in Critical \cup {"unlock"},
           NameOfH(h) = NameOfH(i)
    PROVE  h = i
<1>1. hd[h].gate # NoGate /\ hd[i].gate # NoGate
  BY DEF HandlerInv, Critical
<1>2. hd[h].gate = hd[i].gate
  BY <1>1 DEF GateOfName
<1> QED
  BY <1>2 DEF HolderInv

-----------------------------------------------------------------------------
(* The start.                                                              *)

LEMMA InitDInv == Init => DInv
<1> SUFFICES ASSUME Init PROVE DInv
  OBVIOUS
<1>1. part \in [Names -> Contents]
  <2>1. PICK k \in Leftovers : part = [n \in Names |-> Junk(k[n])]
    BY DEF Init
  <2>2. ASSUME NEW j \in Nat PROVE Junk(j) \in Contents
    <3>1. \A i \in 1..j : Byte(NoSender, i) \in (Senders \cup {NoSender}) \X Nat
      BY DEF Byte
    <3>2. Junk(j) \in [1..j -> (Senders \cup {NoSender}) \X Nat]
      BY <3>1 DEF Junk
    <3> QED
      BY <3>2 DEF Contents
  <2>3. \A n \in Names : k[n] \in Nat
    BY <2>1, FilesAssumption
  <2> QED
    BY <2>1, <2>2, <2>3
<1>2. drop \in [Paths -> Contents] /\ put \in [Paths -> SUBSET Senders]
  <2>1. NoFile \in Contents
    BY DEF NoFile, Contents, Byte
  <2>2. Old \in Contents
    BY DEF Old, Contents, Byte
  <2>3. \A p \in Paths : Before(p) \in Contents
    BY <2>1, <2>2 DEF Before
  <2> QED
    BY <2>3 DEF Init
<1>3. Cardinality(Handlers) \in Nat
  BY HandlersAssumption, FS_CardinalityType
<1>4. hd \in [Handlers -> [pc : HandlerPcs, by : Senders \cup {NoSender}, off : Nat,
                           cur : Nat, got : Nat, gate : Gates \cup {NoGate}, dest : Nat,
                           live : BOOLEAN, res : Results]]
  BY DEF Init, Idle, HandlerPcs, Results
<1>5. snd \in [Senders -> SenderRec] /\ \A s \in Senders : /\ snd[s].pc \in {"idle", "query"}
                                                        /\ snd[s].attempt = 0
                                                        /\ snd[s].conflicts = 0
                                                        /\ snd[s].reply = "none"
  <2>1. PICK c \in Calls :
           snd = [s \in Senders |-> [pc |-> IF s \in c THEN "query" ELSE "idle", off |-> 0,
                                     attempt |-> 0, conflicts |-> 0, reply |-> "none"]]
    BY DEF Init
  <2>2. 0 \in 0..MaxRetries + 1 /\ 0 \in 0..MaxConflicts + 1
    BY FilesAssumption DEF MaxConflicts
  <2> QED
    BY <2>1, <2>2 DEF SenderRec, Results
<1>6. TypeOK
  BY <1>1, <1>2, <1>3, <1>4, <1>5, FilesAssumption
     DEF Init, TypeOK, HandlerPcs, Results, SenderRec
<1>7. \A h \in Handlers : hd[h] = Idle
  BY DEF Init
<1>8. HandlerInv /\ HolderInv /\ RenameInv /\ DestFresh
  BY <1>7 DEF Idle, HandlerInv, HolderInv, RenameInv, DestFresh, Critical
<1>9. GateOfName /\ GatesPruned
  BY <1>7, GatesAssumption DEF Init, Idle, GateOfName, GatesPruned
<1>10. CountInv
  <2>1. \A g \in Gates : Users(g) = {}
    BY <1>7, GatesAssumption DEF Users, Idle
  <2> QED
    BY <2>1, FS_EmptySet DEF CountInv, Init
<1>11. BudgetInv
  BY <1>5, FilesAssumption DEF BudgetInv, MaxConflicts
<1>12. DeliveredIsIntact
  BY DEF Init, DeliveredIsIntact
<1>13. SuccessInv
  BY <1>5, <1>7 DEF Idle, SuccessInv
<1> QED
  BY <1>6, <1>8, <1>9, <1>10, <1>11, <1>12, <1>13 DEF DInv, IInv

-----------------------------------------------------------------------------
(* The receiver's steps inside the gate.                                   *)

\* A handler inside the gate moves on: the gates are as they were, and of the part
\* files only that of its own name may change, under no other handler.
LEMMA Inside ==
    ASSUME IInv, NEW h \in Handlers, NEW r \in HandlerRec, Becomes(h, r),
           hd[h].pc \in Critical,
           r.pc \in Critical \cup {"unlock"}, r.by = hd[h].by, r.gate = hd[h].gate,
           UNCHANGED <<gateVars, snd, restarts>>,
           part' \in [Names -> Contents], drop' \in [Paths -> Contents], put' \in [Paths -> SUBSET Senders],
           \A n \in Names : n # NameOfH(h) => part'[n] = part[n],
           r.pc = "rename" => /\ part'[NameOfH(h)] = File(r.by)
                              /\ r.dest \in DOMAIN Cands[NameOfH(h)],
           DeliveredIsIntact'
    PROVE  IInv'
<1> USE DEF IInv
<1>1. \A i \in Handlers : hd'[i].gate = hd[i].gate /\ hd'[i].by = hd[i].by
  BY DEF Becomes
<1>2. \A i \in Handlers : NameOfH(i)' = NameOfH(i)
  BY <1>1 DEF NameOfH
<1>3. TypeOK'
  BY DEF TypeOK, Becomes, HandlerRec, HandlerPcs, Results, gateVars
<1>4. HandlerInv'
  BY NameType DEF HandlerInv, Becomes, Critical
<1>5. GateOfName'
  BY <1>1, <1>2 DEF GateOfName, gateVars
<1>6. CountInv'
  <2>1. \A g \in Gates : Users(g)' = Users(g)
    BY <1>1 DEF Users
  <2> QED
    BY <2>1 DEF CountInv, gateVars
<1>7. HolderInv'
  BY <1>1 DEF HolderInv, Becomes, gateVars, Critical
<1>8. GatesPruned'
  BY <1>1 DEF GatesPruned, gateVars
<1>9. BudgetInv'
  BY DEF BudgetInv
<1>10. RenameInv'
  <2> SUFFICES ASSUME NEW i \in Handlers, hd'[i].pc = "rename"
               PROVE  /\ part'[NameOfH(i)'] = File(hd'[i].by)
                      /\ hd'[i].dest \in DOMAIN Cands[NameOfH(i)']
    BY DEF RenameInv
  <2>1. CASE i = h
    BY <1>2, <2>1 DEF Becomes
  <2>2. CASE i # h
    <3>1. hd[i].pc = "rename" /\ hd'[i] = hd[i]
      BY <2>2 DEF Becomes
    <3>2. NameOfH(i) # NameOfH(h) /\ NameOfH(i) \in Names
      BY <2>2, <3>1, Exclusion, NameType DEF Critical
    <3> QED
      BY <1>2, <3>1, <3>2 DEF RenameInv
  <2> QED
    BY <2>1, <2>2
<1> QED
  BY <1>3, <1>4, <1>5, <1>6, <1>7, <1>8, <1>9, <1>10

\* What Finish leaves of a handler.
Finished(h, r) == [Idle EXCEPT !.pc = "unlock", !.by = hd[h].by,
                               !.res = IF hd[h].live THEN r ELSE "none",
                               !.gate = hd[h].gate, !.live = hd[h].live]

LEMMA FinishEffect ==
    ASSUME TypeOK, NEW h \in Handlers, NEW r \in Results, Finish(h, r)
    PROVE  /\ Finished(h, r) \in HandlerRec
           /\ Becomes(h, Finished(h, r))
           /\ Finished(h, r).pc = "unlock"
           /\ Finished(h, r).by = hd[h].by
           /\ Finished(h, r).gate = hd[h].gate
           /\ Finished(h, r).res = IF hd[h].live THEN r ELSE "none"
<1>1. hd[h] \in HandlerRec
  BY HandlerTypes
<1>2. Finished(h, r) \in HandlerRec
  BY <1>1 DEF Finished, Idle, HandlerRec, HandlerPcs, Results
<1>3. Becomes(h, Finished(h, r))
  BY <1>2, BecomesEffect DEF Finish, Finished
<1> QED
  BY <1>2, <1>3 DEF Finished, Idle

\* A handler that leaves the critical section with the files as they are.
LEMMA FinishOnlyStep ==
    ASSUME IInv, NEW h \in Handlers,
           OffsetConflict(h) \/ CopyFails(h) \/ FileError(h)
               \/ (hd[h].pc = "copy" /\ Finish(h, "progress")
                     /\ UNCHANGED <<part, drop, gateVars, snd, restarts, put>>)
    PROVE  IInv'
<1>1. PICK r \in Results : Finish(h, r)
  BY DEF OffsetConflict, CopyFails, FileError, Results
<1>2. /\ hd[h].pc \in Critical
      /\ UNCHANGED <<part, drop, gateVars, snd, restarts, put>>
  BY DEF OffsetConflict, CopyFails, FileError, Critical
<1>3. /\ Finished(h, r) \in HandlerRec /\ Becomes(h, Finished(h, r))
      /\ Finished(h, r).pc = "unlock" /\ Finished(h, r).by = hd[h].by
      /\ Finished(h, r).gate = hd[h].gate
  BY <1>1, FinishEffect DEF IInv
<1>4. part' \in [Names -> Contents] /\ drop' \in [Paths -> Contents] /\ put' \in [Paths -> SUBSET Senders] /\ DeliveredIsIntact'
  BY <1>2 DEF IInv, TypeOK, DeliveredIsIntact
<1> HIDE DEF Finished
<1> QED
  BY <1>2, <1>3, <1>4, Inside

LEMMA OpenPartStep ==
    ASSUME IInv, NEW h \in Handlers, OpenPart(h)
    PROVE  IInv'
<1> DEFINE n == NameOfH(h)
           r == [hd[h] EXCEPT !.pc = "copy", !.cur = Len(part[n])]
<1>0. /\ hd[h].pc = "check" /\ hd[h].off <= Len(part[n])
      /\ part' = [part EXCEPT ![n] = SubSeq(part[n], 1, hd[h].off)]
      /\ hd' = [hd EXCEPT ![h] = r]
      /\ UNCHANGED <<drop, gateVars, snd, restarts, put>>
  BY DEF OpenPart
<1>1. n \in Names /\ part[n] \in Contents /\ hd[h] \in HandlerRec
  BY <1>0, NameType, HandlerTypes DEF IInv, TypeOK
<1>2. Len(part[n]) \in Nat /\ hd[h].off \in Nat
  BY <1>1 DEF Contents, HandlerRec
<1>3. r \in HandlerRec /\ r.pc = "copy" /\ r.by = hd[h].by /\ r.gate = hd[h].gate
  BY <1>1, <1>2 DEF HandlerRec, HandlerPcs, Critical
<1>4. Becomes(h, r)
  BY <1>0, <1>3, BecomesEffect DEF IInv
<1>5. SubSeq(part[n], 1, hd[h].off) \in Contents
  BY <1>0, <1>1, <1>2 DEF Contents
<1>6. /\ part' \in [Names -> Contents] /\ \A m \in Names : m # n => part'[m] = part[m]
      /\ drop' \in [Paths -> Contents] /\ put' \in [Paths -> SUBSET Senders] /\ DeliveredIsIntact'
  BY <1>0, <1>1, <1>5 DEF IInv, TypeOK, DeliveredIsIntact
<1> HIDE DEF r
<1> QED
  BY <1>0, <1>3, <1>4, <1>6, Inside DEF Critical

LEMMA CopyByteStep ==
    ASSUME IInv, NEW h \in Handlers, CopyByte(h)
    PROVE  IInv'
<1> DEFINE n == NameOfH(h)
           b == Byte(hd[h].by, hd[h].off + hd[h].got + 1)
           r == [hd[h] EXCEPT !.got = hd[h].got + 1]
<1>0. /\ hd[h].pc = "copy"
      /\ part' = [part EXCEPT ![n] = Append(part[n], b)]
      /\ hd' = [hd EXCEPT ![h] = r]
      /\ UNCHANGED <<drop, gateVars, snd, restarts, put>>
  BY DEF CopyByte
<1>1. n \in Names /\ part[n] \in Contents /\ hd[h] \in HandlerRec /\ hd[h].by \in Senders
  BY <1>0, NameType, HandlerTypes DEF IInv, TypeOK
<1>2. b \in (Senders \cup {NoSender}) \X Nat
  BY <1>1 DEF HandlerRec, Byte
<1>3. r \in HandlerRec /\ r.pc = "copy" /\ r.by = hd[h].by /\ r.gate = hd[h].gate
  BY <1>0, <1>1 DEF HandlerRec
<1>4. Becomes(h, r)
  BY <1>0, <1>3, BecomesEffect DEF IInv
<1>5. Append(part[n], b) \in Contents
  BY <1>1, <1>2 DEF Contents
<1>6. /\ part' \in [Names -> Contents] /\ \A m \in Names : m # n => part'[m] = part[m]
      /\ drop' \in [Paths -> Contents] /\ put' \in [Paths -> SUBSET Senders] /\ DeliveredIsIntact'
  BY <1>0, <1>1, <1>5 DEF IInv, TypeOK, DeliveredIsIntact
<1> HIDE DEF r, b
<1> QED
  BY <1>0, <1>3, <1>4, <1>6, Inside DEF Critical

LEMMA CopyDoneStep ==
    ASSUME IInv, NEW h \in Handlers, CopyDone(h)
    PROVE  IInv'
<1> DEFINE r == [hd[h] EXCEPT !.pc = "verify"]
<1>0. /\ hd[h].pc = "copy"
      /\ Finish(h, "progress") \/ hd' = [hd EXCEPT ![h] = r]
      /\ UNCHANGED <<part, drop, gateVars, snd, restarts, put>>
  BY DEF CopyDone
<1>1. CASE Finish(h, "progress")
  BY <1>0, <1>1, FinishOnlyStep
<1>2. CASE hd' = [hd EXCEPT ![h] = r]
  <2>1. hd[h] \in HandlerRec
    BY HandlerTypes DEF IInv
  <2>2. r \in HandlerRec /\ r.pc = "verify" /\ r.by = hd[h].by /\ r.gate = hd[h].gate
    BY <2>1 DEF HandlerRec, HandlerPcs, Critical
  <2>3. Becomes(h, r)
    BY <1>2, <2>2, BecomesEffect DEF IInv
  <2>4. part' \in [Names -> Contents] /\ drop' \in [Paths -> Contents] /\ put' \in [Paths -> SUBSET Senders] /\ DeliveredIsIntact'
    BY <1>0 DEF IInv, TypeOK, DeliveredIsIntact
  <2> HIDE DEF r
  <2> QED
    BY <1>0, <2>2, <2>3, <2>4, Inside DEF Critical
<1> QED
  BY <1>0, <1>1, <1>2

LEMMA ChecksumMismatchStep ==
    ASSUME IInv, NEW h \in Handlers, ChecksumMismatch(h)
    PROVE  IInv'
<1> DEFINE n == NameOfH(h)
           r == Finished(h, "error")
<1>0. /\ hd[h].pc = "verify"
      /\ part' = [part EXCEPT ![n] = <<>>]
      /\ Finish(h, "error")
      /\ UNCHANGED <<drop, gateVars, snd, restarts, put>>
  BY DEF ChecksumMismatch
<1>1. /\ r \in HandlerRec /\ Becomes(h, r)
      /\ r.pc = "unlock" /\ r.by = hd[h].by /\ r.gate = hd[h].gate
  BY <1>0, FinishEffect DEF IInv, Results
<1>2. <<>> \in Contents
  BY DEF Contents
<1>3. /\ part' \in [Names -> Contents] /\ \A m \in Names : m # n => part'[m] = part[m]
      /\ drop' \in [Paths -> Contents] /\ put' \in [Paths -> SUBSET Senders] /\ DeliveredIsIntact'
  BY <1>0, <1>2 DEF IInv, TypeOK, DeliveredIsIntact
<1> HIDE DEF r
<1> QED
  BY <1>0, <1>1, <1>3, Inside DEF Critical

LEMMA UniquePathStep ==
    ASSUME IInv, NEW h \in Handlers, NEW i \in Tries, UniquePath(h, i)
    PROVE  IInv'
<1> DEFINE n == NameOfH(h)
           r == [hd[h] EXCEPT !.pc = "rename", !.dest = i]
<1>0. /\ hd[h].pc = "verify" /\ part[n] = File(hd[h].by) /\ i \in DOMAIN Cands[n]
      /\ hd' = [hd EXCEPT ![h] = r]
      /\ UNCHANGED <<part, drop, gateVars, snd, restarts, put>>
  BY DEF UniquePath
<1>1. n \in Names /\ hd[h] \in HandlerRec
  BY <1>0, NameType, HandlerTypes DEF IInv
<1>2. i \in Nat
  BY <1>0, <1>1, CandsAssumption
<1>3. r \in HandlerRec /\ r.pc = "rename" /\ r.by = hd[h].by /\ r.gate = hd[h].gate /\ r.dest = i
  BY <1>1, <1>2 DEF HandlerRec, HandlerPcs, Critical
<1>4. Becomes(h, r)
  BY <1>0, <1>3, BecomesEffect DEF IInv
<1>5. part' \in [Names -> Contents] /\ drop' \in [Paths -> Contents] /\ put' \in [Paths -> SUBSET Senders] /\ DeliveredIsIntact'
  BY <1>0 DEF IInv, TypeOK, DeliveredIsIntact
<1> HIDE DEF r
<1> QED
  BY <1>0, <1>3, <1>4, <1>5, Inside DEF Critical

\* What is renamed into the drop folder is the file that the checksum was of.
LEMMA RenameStep ==
    ASSUME IInv, NEW h \in Handlers, Rename(h)
    PROVE  IInv'
<1> DEFINE n == NameOfH(h)
           p == Cands[n][hd[h].dest]
           r == Finished(h, "done")
<1>0. /\ hd[h].pc = "rename"
      /\ drop' = [drop EXCEPT ![p] = part[n]]
      /\ part' = [part EXCEPT ![n] = <<>>]
      /\ Finish(h, "done")
      /\ put' = [put EXCEPT ![p] = put[p] \cup {hd[h].by}]
      /\ UNCHANGED <<gateVars, snd, restarts>>
  BY DEF Rename
<1>1. n \in Names /\ hd[h].by \in Senders /\ part[n] = File(hd[h].by) /\ p \in Paths
  BY <1>0, NameType DEF IInv, RenameInv, Paths
<1>2. /\ r \in HandlerRec /\ Becomes(h, r)
      /\ r.pc = "unlock" /\ r.by = hd[h].by /\ r.gate = hd[h].gate
  BY <1>0, FinishEffect DEF IInv, Results
<1>3. <<>> \in Contents /\ File(hd[h].by) \in Contents
  BY <1>1, FileIsSomething DEF Contents
<1>4. /\ part' \in [Names -> Contents] /\ \A m \in Names : m # n => part'[m] = part[m]
      /\ drop' \in [Paths -> Contents] /\ put' \in [Paths -> SUBSET Senders]
  BY <1>0, <1>1, <1>3 DEF IInv, TypeOK
<1>5. DeliveredIsIntact'
  <2> SUFFICES ASSUME NEW q \in Paths
               PROVE  \/ put'[q] = {} /\ drop'[q] = Before(q)
                      \/ \E s \in put'[q] : drop'[q] = File(s)
    BY DEF DeliveredIsIntact, Before
  <2>1. CASE q = p
    <3>1. hd[h].by \in put'[q] /\ drop'[q] = File(hd[h].by)
      BY <1>0, <1>1, <2>1 DEF IInv, TypeOK
    <3> QED
      BY <3>1
  <2>2. CASE q # p
    <3>1. put'[q] = put[q] /\ drop'[q] = drop[q]
      BY <1>0, <2>2 DEF IInv, TypeOK
    <3> QED
      BY <3>1 DEF IInv, DeliveredIsIntact
  <2> QED
    BY <2>1, <2>2
<1> HIDE DEF r
<1> QED
  BY <1>0, <1>2, <1>4, <1>5, Inside DEF Critical

-----------------------------------------------------------------------------
(* acquire and release.                                                    *)

LEMMA CountBound ==
    ASSUME NEW S \in SUBSET Handlers
    PROVE  IsFiniteSet(S) /\ Cardinality(S) \in 0..Cardinality(Handlers)
<1>1. IsFiniteSet(S) /\ Cardinality(S) <= Cardinality(Handlers)
  BY HandlersAssumption, FS_Subset
<1> QED
  BY <1>1, HandlersAssumption, FS_CardinalityType

\* The files are as they were, and no handler comes to rename.
LEMMA FilesKept ==
    ASSUME IInv, NEW h \in Handlers, NEW r \in HandlerRec, Becomes(h, r), r.pc # "rename",
           UNCHANGED <<part, drop, put>>
    PROVE  RenameInv' /\ DeliveredIsIntact'
<1>1. RenameInv'
  <2> SUFFICES ASSUME NEW i \in Handlers, hd'[i].pc = "rename"
               PROVE  /\ part'[NameOfH(i)'] = File(hd'[i].by)
                      /\ hd'[i].dest \in DOMAIN Cands[NameOfH(i)']
    BY DEF RenameInv
  <2>1. hd'[i] = hd[i]
    BY DEF Becomes
  <2> QED
    BY <2>1 DEF IInv, RenameInv, NameOfH
<1> QED
  BY <1>1 DEF IInv, DeliveredIsIntact

\* The references to the gates are as they were.
LEMMA GatesKept ==
    ASSUME IInv, NEW h \in Handlers, NEW r \in HandlerRec, Becomes(h, r),
           r.gate = hd[h].gate, r.gate # NoGate => r.by = hd[h].by,
           UNCHANGED <<locks, count>>
    PROVE  GateOfName' /\ CountInv' /\ GatesPruned'
<1>1. \A i \in Handlers : hd'[i].gate = hd[i].gate
  BY DEF Becomes
<1>2. \A i \in Handlers : hd[i].gate # NoGate => NameOfH(i)' = NameOfH(i)
  BY DEF NameOfH, Becomes
<1>3. GateOfName'
  BY <1>1, <1>2 DEF IInv, GateOfName
<1>4. CountInv'
  <2>1. \A g \in Gates : Users(g)' = Users(g)
    BY <1>1 DEF Users
  <2> QED
    BY <2>1 DEF IInv, CountInv
<1>5. GatesPruned'
  BY <1>1 DEF IInv, GatesPruned
<1> QED
  BY <1>3, <1>4, <1>5

LEMMA AcquireStep ==
    ASSUME IInv, NEW h \in Handlers, NEW g \in Gates, Acquire(h, g)
    PROVE  IInv'
<1> DEFINE n == NameOfH(h)
           r == [hd[h] EXCEPT !.pc = "lock", !.gate = g]
<1>0. /\ hd[h].pc = "acquire"
      /\ g = locks[n] \/ (locks[n] = NoGate /\ g \in UnusedGates)
      /\ locks' = [locks EXCEPT ![n] = g]
      /\ count' = [count EXCEPT ![g] = count[g] + 1]
      /\ hd' = [hd EXCEPT ![h] = r]
      /\ UNCHANGED <<part, drop, holder, snd, restarts, put>>
  BY DEF Acquire, FreshGate
<1>1. /\ n \in Names /\ hd[h] \in HandlerRec /\ hd[h].by \in Senders
      /\ hd[h].gate = NoGate /\ g # NoGate
  BY <1>0, NameType, HandlerTypes, GatesAssumption DEF IInv, HandlerInv
<1>2. r \in HandlerRec /\ r.pc = "lock" /\ r.by = hd[h].by /\ r.gate = g /\ r.res = hd[h].res
  BY <1>1 DEF HandlerRec, HandlerPcs
<1>3. Becomes(h, r)
  BY <1>0, <1>2, BecomesEffect DEF IInv
<1> HIDE DEF r
<1>4. /\ locks' \in [Names -> Gates \cup {NoGate}]
      /\ \A m \in Names : locks'[m] = IF m = n THEN g ELSE locks[m]
  BY <1>0, <1>1 DEF IInv, TypeOK
<1>5. \A i \in Handlers : NameOfH(i)' = NameOfH(i)
  BY <1>2, <1>3 DEF NameOfH, Becomes
<1>6. ASSUME NEW m \in Names, m # n PROVE locks[m] # g
  <2>1. CASE g = locks[n]
    BY <1>1, <1>6, <2>1 DEF IInv, GateOfName
  <2>2. CASE g \in UnusedGates
    BY <1>1, <2>2 DEF IInv, GatesPruned, UnusedGates
  <2> QED
    BY <1>0, <2>1, <2>2
<1>7. CountInv'
  <2>1. h \notin Users(g) /\ Users(g) \in SUBSET Handlers
    BY <1>1 DEF Users
  <2>2. Users(g)' = Users(g) \cup {h}
    BY <1>2, <1>3 DEF Users, Becomes
  <2>3. \A k \in Gates : k # g => Users(k)' = Users(k)
    BY <1>1, <1>2, <1>3, GatesAssumption DEF Users, Becomes
  <2>4. Cardinality(Users(g) \cup {h}) = Cardinality(Users(g)) + 1
    BY <2>1, CountBound, FS_AddElement
  <2>5. \A k \in Gates : count'[k] = IF k = g THEN count[g] + 1 ELSE count[k]
    BY <1>0 DEF IInv, TypeOK
  <2> QED
    BY <2>2, <2>3, <2>4, <2>5 DEF IInv, CountInv
<1>8. count' \in [Gates -> 0..Cardinality(Handlers)]
  <2>1. \A k \in Gates : Users(k)' \in SUBSET Handlers
    BY DEF Users
  <2>2. \A k \in Gates : count'[k] \in 0..Cardinality(Handlers)
    BY <1>7, <2>1, CountBound DEF CountInv
  <2>3. DOMAIN count' = Gates /\ count' = [k \in Gates |-> count'[k]]
    BY <1>0 DEF IInv, TypeOK
  <2> QED
    BY <2>2, <2>3
<1>9. TypeOK'
  BY <1>0, <1>3, <1>4, <1>8 DEF IInv, TypeOK, Becomes, HandlerRec, HandlerPcs, Results
<1>10. HandlerInv'
  BY <1>0, <1>1, <1>2, <1>3 DEF IInv, HandlerInv, Becomes
<1>11. GateOfName'
  <2>1. ASSUME NEW i \in Handlers, hd'[i].gate # NoGate
        PROVE  locks'[NameOfH(i)] = hd'[i].gate
    <3>1. CASE i = h
      BY <1>1, <1>2, <1>3, <1>4, <3>1 DEF Becomes
    <3>2. CASE i # h
      <4>1. hd'[i] = hd[i] /\ locks[NameOfH(i)] = hd[i].gate
        BY <1>3, <2>1, <3>2 DEF Becomes, IInv, GateOfName
      <4>2. NameOfH(i) \in Names
        BY <2>1, <4>1, NameType DEF IInv, HandlerInv
      <4>3. NameOfH(i) = n => locks[n] = g
        BY <1>0, <2>1, <4>1
      <4> QED
        BY <1>4, <4>1, <4>2, <4>3
    <3> QED
      BY <3>1, <3>2
  <2>2. \A k, m \in Names : locks'[k] = locks'[m] /\ locks'[k] # NoGate => k = m
    BY <1>4, <1>6 DEF IInv, GateOfName
  <2> QED
    BY <1>5, <2>1, <2>2 DEF GateOfName
<1>12. HolderInv'
  BY <1>0, <1>2, <1>3 DEF IInv, HolderInv, Becomes, Critical
<1>13. GatesPruned'
  <2>1. ASSUME NEW m \in Names, locks'[m] # NoGate
        PROVE  \E i \in Handlers : hd'[i].gate # NoGate /\ hd'[i].gate = locks'[m]
    <3>1. CASE m = n
      BY <1>1, <1>2, <1>3, <1>4, <3>1 DEF Becomes
    <3>2. CASE m # n
      <4>1. locks'[m] = locks[m]
        BY <1>4, <3>2
      <4>2. PICK i \in Handlers : hd[i].gate # NoGate /\ hd[i].gate = locks[m]
        BY <2>1, <4>1 DEF IInv, GatesPruned
      <4>3. i # h
        BY <1>1, <4>2
      <4> QED
        BY <1>3, <4>1, <4>2, <4>3 DEF Becomes
    <3> QED
      BY <3>1, <3>2
  <2> QED
    BY <2>1 DEF GatesPruned
<1>14. BudgetInv'
  BY <1>0 DEF IInv, BudgetInv
<1>15. RenameInv' /\ DeliveredIsIntact'
  BY <1>0, <1>2, <1>3, FilesKept
<1> QED
  BY <1>7, <1>9, <1>10, <1>11, <1>12, <1>13, <1>14, <1>15 DEF IInv

\* g.mu.Lock: nobody else is inside the gate.  g.mu.Unlock: nobody else was.
LEMMA LockStep ==
    ASSUME IInv, NEW h \in Handlers, Lock(h) \/ Unlock(h)
    PROVE  IInv'
<1> DEFINE g == hd[h].gate
<1>0. PICK p \in {"check", "leave"}, x \in {h, NoHandler} :
         /\ p = "check" => hd[h].pc = "lock" /\ holder[g] = NoHandler /\ x = h
         /\ p = "leave" => hd[h].pc = "unlock"
         /\ holder' = [holder EXCEPT ![g] = x]
         /\ hd' = [hd EXCEPT ![h] = [hd[h] EXCEPT !.pc = p]]
         /\ UNCHANGED <<part, drop, locks, count, snd, restarts, put>>
  <2>1. CASE Lock(h)
    BY <2>1 DEF Lock
  <2>2. CASE Unlock(h)
    BY <2>2 DEF Unlock
  <2> QED
    BY <2>1, <2>2
<1> DEFINE r == [hd[h] EXCEPT !.pc = p]
<1>1. g \in Gates /\ g # NoGate /\ hd[h] \in HandlerRec /\ hd[h].by \in Senders
  BY <1>0, NameType, HandlerTypes DEF IInv, HandlerInv, HandlerRec
<1>2. /\ r \in HandlerRec /\ r.pc = p /\ r.by = hd[h].by /\ r.gate = g
  BY <1>1 DEF HandlerRec, HandlerPcs, Critical
<1>3. Becomes(h, r)
  BY <1>0, <1>2, BecomesEffect DEF IInv
<1> HIDE DEF r
<1>4. /\ holder' \in [Gates -> Handlers \cup {NoHandler}]
      /\ \A k \in Gates : holder'[k] = IF k = g THEN x ELSE holder[k]
  BY <1>0, <1>1 DEF IInv, TypeOK
<1>5. TypeOK'
  BY <1>0, <1>3, <1>4 DEF IInv, TypeOK, Becomes, HandlerRec, HandlerPcs, Results
<1>6. HandlerInv'
  BY <1>0, <1>1, <1>2, <1>3 DEF IInv, HandlerInv, Becomes
<1>7. GateOfName' /\ CountInv' /\ GatesPruned'
  BY <1>0, <1>2, <1>3, GatesKept
<1>8. HolderInv'
  <2> SUFFICES ASSUME NEW i \in Handlers, hd'[i].pc \in Critical \cup {"unlock"}
               PROVE  holder'[hd'[i].gate] = i
    BY DEF HolderInv
  <2>1. CASE i = h
    BY <1>0, <1>1, <1>2, <1>3, <1>4, <2>1 DEF Becomes, Critical
  <2>2. CASE i # h
    <3>1. hd'[i] = hd[i] /\ holder[hd[i].gate] = i
      BY <1>3, <2>2 DEF Becomes, IInv, HolderInv
    <3>2. hd[i].gate \in Gates
      BY <3>1, HandlerTypes DEF IInv, HandlerInv, HandlerRec, Critical
    <3>3. hd[i].gate # g
      BY <1>0, <2>2, <3>1, HandlersAssumption DEF IInv, HolderInv
    <3> QED
      BY <1>4, <3>1, <3>2, <3>3
  <2> QED
    BY <2>1, <2>2
<1>9. BudgetInv'
  BY <1>0 DEF IInv, BudgetInv
<1>10. RenameInv' /\ DeliveredIsIntact'
  BY <1>0, <1>2, <1>3, FilesKept
<1> QED
  BY <1>5, <1>6, <1>7, <1>8, <1>9, <1>10 DEF IInv

\* A reply changes nothing else about a SendFile.
LEMMA ReplyEffect ==
    ASSUME TypeOK, NEW s \in Senders, NEW x \in Results,
           snd' = [snd EXCEPT ![s].reply = x]
    PROVE  /\ snd' \in [Senders -> SenderRec]
           /\ \A t \in Senders : /\ snd'[t].pc = snd[t].pc
                                 /\ snd'[t].attempt = snd[t].attempt
                                 /\ snd'[t].conflicts = snd[t].conflicts
                                 /\ snd'[t].reply = IF t = s THEN x ELSE snd[t].reply
<1> DEFINE y == [snd[s] EXCEPT !.reply = x]
<1>1. snd[s] \in SenderRec /\ snd \in [Senders -> SenderRec]
  BY HandlerTypes
<1>2. /\ y \in SenderRec /\ y.pc = snd[s].pc /\ y.attempt = snd[s].attempt
      /\ y.conflicts = snd[s].conflicts /\ y.reply = x
      /\ snd' = [snd EXCEPT ![s] = y]
  BY <1>1 DEF SenderRec
<1> HIDE DEF y
<1> QED
  BY <1>1, <1>2

\* release: the gate is dropped from the map by the last handler that refers to it.
LEMMA LeaveStep ==
    ASSUME IInv, NEW h \in Handlers, Leave(h)
    PROVE  IInv'
<1> DEFINE n == NameOfH(h)
<1>a. hd[h].pc = "leave"
  BY DEF Leave
<1>b. /\ n \in Names /\ hd[h].gate \in Gates /\ locks[n] = hd[h].gate
      /\ hd[h] \in HandlerRec /\ hd[h].by \in Senders
  BY <1>a, NameType, HandlerTypes DEF IInv, HandlerInv, GateOfName, HandlerRec
<1>c. PICK g \in Gates : g = hd[h].gate
  BY <1>b
<1>0. /\ count' = [count EXCEPT ![g] = count[g] - 1]
      /\ locks' = IF count[g] = 1 THEN [locks EXCEPT ![n] = NoGate] ELSE locks
      /\ hd' = [hd EXCEPT ![h] = Idle]
      /\ snd' = IF hd[h].live THEN [snd EXCEPT ![hd[h].by].reply = hd[h].res] ELSE snd
      /\ UNCHANGED <<part, drop, holder, restarts, put>>
  BY <1>c DEF Leave
<1>1. /\ n \in Names /\ g \in Gates /\ g # NoGate /\ hd[h].gate = g /\ locks[n] = g
      /\ hd[h] \in HandlerRec /\ hd[h].by \in Senders
  BY <1>b, <1>c, GatesAssumption
<1>2. Idle \in HandlerRec /\ Becomes(h, Idle)
  BY <1>0, HandlerTypes, BecomesEffect DEF IInv
<1>3. Idle.pc = "free" /\ Idle.gate = NoGate /\ Idle.res = "none"
  BY DEF Idle
<1>4. /\ snd' \in [Senders -> SenderRec]
      /\ \A t \in Senders : /\ snd'[t].pc = snd[t].pc
                            /\ snd'[t].attempt = snd[t].attempt
                            /\ snd'[t].conflicts = snd[t].conflicts
  <2>1. hd[h].res \in Results
    BY <1>1 DEF HandlerRec
  <2>2. CASE hd[h].live
    BY <1>0, <1>1, <2>1, <2>2, ReplyEffect DEF IInv
  <2>3. CASE ~hd[h].live
    BY <1>0, <2>3, HandlerTypes DEF IInv
  <2> QED
    BY <2>2, <2>3
<1>5. /\ locks' \in [Names -> Gates \cup {NoGate}]
      /\ \A m \in Names : locks'[m] = IF count[g] = 1 /\ m = n THEN NoGate ELSE locks[m]
  BY <1>0, <1>1 DEF IInv, TypeOK
<1>6. /\ Users(g)' = Users(g) \ {h} /\ h \in Users(g) /\ Users(g) \in SUBSET Handlers
      /\ \A k \in Gates : k # g => Users(k)' = Users(k)
  <2>1. ASSUME NEW k \in Gates, NEW i \in Handlers
        PROVE  hd'[i].gate = k <=> hd[i].gate = k /\ i # h
    BY <1>2, <1>3, GatesAssumption DEF Becomes
  <2> QED
    BY <1>1, <2>1 DEF Users
<1>7. CountInv'
  <2>1. Cardinality(Users(g) \ {h}) = Cardinality(Users(g)) - 1
    BY <1>6, CountBound, FS_RemoveElement
  <2>2. \A k \in Gates : count'[k] = IF k = g THEN count[g] - 1 ELSE count[k]
    BY <1>0 DEF IInv, TypeOK
  <2> QED
    BY <1>1, <1>6, <2>1, <2>2 DEF IInv, CountInv
<1>8. count' \in [Gates -> 0..Cardinality(Handlers)]
  <2>1. \A k \in Gates : Users(k)' \in SUBSET Handlers
    BY DEF Users
  <2>2. \A k \in Gates : count'[k] \in 0..Cardinality(Handlers)
    BY <1>7, <2>1, CountBound DEF CountInv
  <2>3. DOMAIN count' = Gates /\ count' = [k \in Gates |-> count'[k]]
    BY <1>0 DEF IInv, TypeOK
  <2> QED
    BY <2>2, <2>3
\* The count is one exactly when nobody else refers to the gate.
<1>9. count[g] = 1 <=> \A i \in Handlers : hd[i].gate = g => i = h
  <2>1. count[g] = Cardinality(Users(g)) /\ IsFiniteSet(Users(g))
    BY <1>1, <1>6, CountBound DEF IInv, CountInv
  <2>2. /\ IsFiniteSet(Users(g) \ {h})
        /\ Cardinality(Users(g) \ {h}) = count[g] - 1 /\ count[g] \in Nat
    BY <1>6, <2>1, FS_RemoveElement, FS_CardinalityType
  <2>3. count[g] = 1 <=> Users(g) \ {h} = {}
    BY <2>2, FS_EmptySet
  <2> QED
    BY <2>3 DEF Users
<1>10. TypeOK'
  BY <1>0, <1>2, <1>4, <1>5, <1>8
     DEF IInv, TypeOK, Becomes, HandlerRec, HandlerPcs, Results, SenderRec
<1>11. HandlerInv'
  BY <1>2, <1>3 DEF IInv, HandlerInv, Becomes
<1>12. GateOfName'
  <2>1. ASSUME NEW i \in Handlers, hd'[i].gate # NoGate
        PROVE  locks'[NameOfH(i)'] = hd'[i].gate
    <3>1. i # h /\ hd'[i] = hd[i] /\ NameOfH(i)' = NameOfH(i)
      BY <1>2, <1>3, <2>1 DEF Becomes, NameOfH
    <3>2. NameOfH(i) \in Names /\ locks[NameOfH(i)] = hd[i].gate
      BY <2>1, <3>1, NameType DEF IInv, HandlerInv, GateOfName
    <3>3. ~(count[g] = 1 /\ NameOfH(i) = n)
      BY <1>1, <1>9, <3>1, <3>2
    <3> QED
      BY <1>5, <3>1, <3>2, <3>3
  <2>2. \A k, m \in Names : locks'[k] = locks'[m] /\ locks'[k] # NoGate => k = m
    BY <1>5 DEF IInv, GateOfName
  <2> QED
    BY <2>1, <2>2 DEF GateOfName
<1>13. HolderInv'
  BY <1>0, <1>2, <1>3 DEF IInv, HolderInv, Becomes, Critical
<1>14. GatesPruned'
  <2>1. ASSUME NEW m \in Names, locks'[m] # NoGate
        PROVE  \E i \in Handlers : hd'[i].gate # NoGate /\ hd'[i].gate = locks'[m]
    <3>1. locks'[m] = locks[m] /\ ~(count[g] = 1 /\ m = n)
      BY <1>5, <2>1
    <3>2. \E i \in Handlers : i # h /\ hd[i].gate # NoGate /\ hd[i].gate = locks[m]
      <4>1. CASE m = n
        BY <1>1, <1>9, <3>1, <4>1
      <4>2. CASE m # n
        <5>1. locks[m] # g
          BY <1>1, <4>2 DEF IInv, GateOfName
        <5>2. PICK i \in Handlers : hd[i].gate # NoGate /\ hd[i].gate = locks[m]
          BY <2>1, <3>1 DEF IInv, GatesPruned
        <5> QED
          BY <1>1, <5>1, <5>2
      <4> QED
        BY <4>1, <4>2
    <3> QED
      BY <1>2, <3>1, <3>2 DEF Becomes
  <2> QED
    BY <2>1 DEF GatesPruned
<1>15. BudgetInv'
  BY <1>4 DEF IInv, BudgetInv
<1>16. RenameInv' /\ DeliveredIsIntact'
  BY <1>0, <1>2, <1>3, FilesKept
<1> QED
  BY <1>7, <1>10, <1>11, <1>12, <1>13, <1>14, <1>15, <1>16 DEF IInv

-----------------------------------------------------------------------------
(* The senders, their connections, and the restart.                        *)

\* A new PUT: a handler that was free starts.
LEMMA PutStep ==
    ASSUME IInv, NEW s \in Senders, NEW h \in Handlers, Put(s, h)
    PROVE  IInv'
<1> DEFINE r == [Idle EXCEPT !.pc = "acquire", !.by = s, !.off = snd[s].off, !.live = TRUE]
           y == [snd[s] EXCEPT !.pc = "wait", !.off = 0]
<1>0. /\ snd[s].pc = "put" /\ hd[h].pc = "free"
      /\ hd' = [hd EXCEPT ![h] = r]
      /\ snd' = [snd EXCEPT ![s] = y]
      /\ UNCHANGED <<part, drop, gateVars, restarts, put>>
  BY DEF Put, FreeHandlers
<1>1. snd[s] \in SenderRec /\ snd \in [Senders -> SenderRec]
  BY HandlerTypes DEF IInv
<1>2. /\ r \in HandlerRec /\ r.pc = "acquire" /\ r.by = s /\ r.gate = NoGate /\ r.res = "none"
  BY <1>1 DEF Idle, HandlerRec, HandlerPcs, Results, SenderRec
<1>3. /\ y \in SenderRec /\ y.pc = "wait" /\ y.attempt = snd[s].attempt
      /\ y.conflicts = snd[s].conflicts
  BY <1>1 DEF SenderRec
<1>4. Becomes(h, r)
  BY <1>0, <1>2, BecomesEffect DEF IInv
<1> HIDE DEF r, y
<1>5. snd' \in [Senders -> SenderRec]
  BY <1>0, <1>1, <1>3
<1>6. TypeOK'
  BY <1>0, <1>4, <1>5
     DEF IInv, TypeOK, Becomes, HandlerRec, HandlerPcs, Results, SenderRec, gateVars
<1>7. HandlerInv'
  BY <1>2, <1>4 DEF IInv, HandlerInv, Becomes
<1>8. GateOfName' /\ CountInv' /\ GatesPruned'
  <2>1. r.gate = hd[h].gate
    BY <1>0, <1>2 DEF IInv, HandlerInv
  <2> QED
    BY <1>0, <1>2, <1>4, <2>1, GatesKept DEF gateVars
<1>9. HolderInv'
  BY <1>0, <1>2, <1>4 DEF IInv, HolderInv, Becomes, Critical, gateVars
<1>10. BudgetInv'
  BY <1>0, <1>1, <1>3 DEF IInv, BudgetInv
<1>11. RenameInv' /\ DeliveredIsIntact'
  BY <1>0, <1>2, <1>4, FilesKept
<1> QED
  BY <1>6, <1>7, <1>8, <1>9, <1>10, <1>11 DEF IInv

\* The connection of a PUT breaks; its handler goes on.
LEMMA ConnDropsStep ==
    ASSUME IInv, NEW s \in Senders, NEW h \in Handlers, ConnDrops(s, h)
    PROVE  IInv'
<1> DEFINE r == [hd[h] EXCEPT !.live = FALSE, !.res = "none"]
<1>0. /\ hd' = [hd EXCEPT ![h] = r]
      /\ snd' = [snd EXCEPT ![s].reply = "error"]
      /\ UNCHANGED <<part, drop, gateVars, restarts, put>>
  BY DEF ConnDrops
<1>1. hd[h] \in HandlerRec
  BY HandlerTypes DEF IInv
<1>2. /\ r \in HandlerRec /\ r.pc = hd[h].pc /\ r.by = hd[h].by /\ r.gate = hd[h].gate
      /\ r.dest = hd[h].dest /\ r.res = "none"
  BY <1>1 DEF HandlerRec, Results
<1>3. Becomes(h, r)
  BY <1>0, <1>2, BecomesEffect DEF IInv
<1> HIDE DEF r
<1>4. /\ snd' \in [Senders -> SenderRec]
      /\ \A t \in Senders : /\ snd'[t].pc = snd[t].pc
                            /\ snd'[t].attempt = snd[t].attempt
                            /\ snd'[t].conflicts = snd[t].conflicts
  BY <1>0, ReplyEffect DEF IInv, Results
<1>5. TypeOK'
  BY <1>0, <1>3, <1>4
     DEF IInv, TypeOK, Becomes, HandlerRec, HandlerPcs, Results, SenderRec, gateVars
<1>6. HandlerInv'
  BY <1>2, <1>3 DEF IInv, HandlerInv, Becomes
<1>7. GateOfName' /\ CountInv' /\ GatesPruned'
  BY <1>0, <1>2, <1>3, GatesKept DEF gateVars
<1>8. HolderInv'
  BY <1>0, <1>2, <1>3 DEF IInv, HolderInv, Becomes, gateVars
<1>9. BudgetInv'
  BY <1>4 DEF IInv, BudgetInv
<1>10. RenameInv'
  <2>1. \A i \in Handlers : /\ hd'[i].pc = hd[i].pc /\ hd'[i].by = hd[i].by
                            /\ hd'[i].dest = hd[i].dest
    BY <1>2, <1>3 DEF Becomes
  <2> QED
    BY <1>0, <2>1 DEF IInv, RenameInv, NameOfH
<1>11. DeliveredIsIntact'
  BY <1>0 DEF IInv, DeliveredIsIntact
<1> QED
  BY <1>5, <1>6, <1>7, <1>8, <1>9, <1>10, <1>11 DEF IInv

\* A step of a sender alone: only its own record changes, within its budget.
LEMMA SenderOnly ==
    ASSUME IInv, NEW s \in Senders, NEW y \in SenderRec,
           snd' = [snd EXCEPT ![s] = y],
           y.pc \notin {"ok", "failed"} => y.attempt <= MaxRetries /\ y.conflicts <= MaxConflicts,
           UNCHANGED <<part, drop, gateVars, hd, restarts, put>>
    PROVE  IInv'
<1>1. snd \in [Senders -> SenderRec]
  BY HandlerTypes DEF IInv
<1>2. snd' \in [Senders -> SenderRec] /\ \A t \in Senders : snd'[t] = IF t = s THEN y ELSE snd[t]
  BY <1>1
<1>3. TypeOK'
  BY <1>2 DEF IInv, TypeOK, SenderRec, Results, gateVars
<1>4. HandlerInv' /\ GateOfName' /\ HolderInv' /\ GatesPruned' /\ RenameInv' /\ DeliveredIsIntact'
  BY DEF IInv, HandlerInv, GateOfName, HolderInv, GatesPruned, RenameInv, DeliveredIsIntact,
         NameOfH, gateVars
<1>5. CountInv'
  BY DEF IInv, CountInv, Users, gateVars
<1>6. BudgetInv'
  BY <1>2 DEF IInv, BudgetInv
<1> QED
  BY <1>3, <1>4, <1>5, <1>6 DEF IInv

\* An attempt that failed.
LEMMA FailedEffect ==
    ASSUME NEW y \in SenderRec, y.attempt <= MaxRetries, y.conflicts <= MaxConflicts
    PROVE  /\ Failed(y) \in SenderRec /\ Failed(y).pc # "ok" /\ Failed(y).reply = "none"
           /\ Failed(y).pc # "failed" => /\ Failed(y).attempt <= MaxRetries
                                         /\ Failed(y).conflicts <= MaxConflicts
<1>1. y.attempt \in 0..MaxRetries /\ y.attempt + 1 \in 0..MaxRetries + 1 /\ MaxRetries \in Nat
  BY FilesAssumption DEF SenderRec
<1>2. /\ Failed(y).attempt = y.attempt + 1 /\ Failed(y).conflicts = y.conflicts
      /\ Failed(y).reply = "none"
      /\ Failed(y).pc = IF y.attempt + 1 > MaxRetries THEN "failed" ELSE "query"
  BY DEF Failed, SenderRec
<1>3. Failed(y) \in SenderRec
  BY <1>1 DEF Failed, SenderRec, Results
<1> QED
  BY <1>1, <1>2, <1>3

LEMMA QueryStep ==
    ASSUME IInv, NEW s \in Senders, Query(s)
    PROVE  IInv'
<1> DEFINE k == IF Len(part[NameOf[s]]) > Size[s] THEN 0 ELSE Len(part[NameOf[s]])
           y == [snd[s] EXCEPT !.pc = "put", !.off = k]
<1>0. /\ snd[s].pc = "query"
      /\ snd' = [snd EXCEPT ![s] = y]
      /\ UNCHANGED <<part, drop, gateVars, hd, restarts, put>>
  BY DEF Query
<1>1. k \in Nat
  BY FilesAssumption DEF IInv, TypeOK, Contents
<1>2. snd[s] \in SenderRec
  BY HandlerTypes DEF IInv
<1> HIDE DEF k
<1>3. /\ y \in SenderRec /\ y.attempt = snd[s].attempt /\ y.conflicts = snd[s].conflicts
  BY <1>1, <1>2 DEF SenderRec
<1>4. y.attempt <= MaxRetries /\ y.conflicts <= MaxConflicts
  BY <1>0, <1>3 DEF IInv, BudgetInv
<1> HIDE DEF y
<1> QED
  BY <1>0, <1>3, <1>4, SenderOnly

LEMMA AttemptFailsStep ==
    ASSUME IInv, NEW s \in Senders, AttemptFails(s)
    PROVE  IInv'
<1>1. /\ snd[s] \in SenderRec
      /\ snd[s].attempt <= MaxRetries /\ snd[s].conflicts <= MaxConflicts
  BY HandlerTypes DEF AttemptFails, IInv, BudgetInv
<1>2. /\ Failed(snd[s]) \in SenderRec
      /\ Failed(snd[s]).pc # "failed" => /\ Failed(snd[s]).attempt <= MaxRetries
                                         /\ Failed(snd[s]).conflicts <= MaxConflicts
  BY <1>1, FailedEffect
<1>3. /\ snd' = [snd EXCEPT ![s] = Failed(snd[s])]
      /\ UNCHANGED <<part, drop, gateVars, hd, restarts, put>>
  BY DEF AttemptFails
<1> QED
  BY <1>2, <1>3, SenderOnly

\* What the switch on putFrom's result does.
Switched(s) ==
    CASE snd[s].reply = "done" -> [snd[s] EXCEPT !.pc = "ok", !.reply = "none"]
      [] snd[s].reply = "conflict" ->
           [snd[s] EXCEPT !.conflicts = @ + 1, !.reply = "none",
                          !.pc = IF snd[s].conflicts + 1 > MaxConflicts THEN "failed" ELSE "query"]
      [] OTHER -> Failed(snd[s])

LEMMA ReplyStep ==
    ASSUME IInv, NEW s \in Senders, Reply(s)
    PROVE  /\ IInv'
           /\ Switched(s) \in SenderRec
           /\ snd' = [snd EXCEPT ![s] = Switched(s)]
           /\ Switched(s).pc = "ok" => snd[s].reply = "done"
           /\ Switched(s).reply = "none"
<1>0. /\ snd[s].pc = "wait"
      /\ snd' = [snd EXCEPT ![s] = Switched(s)]
      /\ UNCHANGED <<part, drop, gateVars, hd, restarts, put>>
  BY DEF Reply, Switched
<1>1. /\ snd[s] \in SenderRec
      /\ snd[s].attempt <= MaxRetries /\ snd[s].conflicts <= MaxConflicts
      /\ MaxConflicts \in Nat
  BY <1>0, HandlerTypes DEF IInv, BudgetInv
<1>2. /\ Switched(s) \in SenderRec
      /\ Switched(s).pc \notin {"ok", "failed"} => /\ Switched(s).attempt <= MaxRetries
                                                  /\ Switched(s).conflicts <= MaxConflicts
      /\ Switched(s).pc = "ok" => snd[s].reply = "done"
      /\ Switched(s).reply = "none"
  <2>1. CASE snd[s].reply = "done"
    <3> DEFINE y == [snd[s] EXCEPT !.pc = "ok", !.reply = "none"]
    <3>1. y \in SenderRec /\ y.pc = "ok" /\ y.reply = "none"
      BY <1>1 DEF SenderRec, Results
    <3>2. Switched(s) = y
      BY <2>1 DEF Switched
    <3> HIDE DEF y
    <3> QED
      BY <2>1, <3>1, <3>2
  <2>2. CASE snd[s].reply = "conflict"
    <3> DEFINE k == snd[s].conflicts + 1
               y == [snd[s] EXCEPT !.conflicts = k, !.reply = "none",
                                   !.pc = IF k > MaxConflicts THEN "failed" ELSE "query"]
    <3>1. k \in 0..MaxConflicts + 1
      BY <1>1 DEF SenderRec
    <3>2. Switched(s) = y
      BY <2>2 DEF Switched
    <3> HIDE DEF k
    <3>3. /\ y \in SenderRec /\ y.reply = "none" /\ y.conflicts = k
          /\ y.attempt = snd[s].attempt
          /\ y.pc = IF k > MaxConflicts THEN "failed" ELSE "query"
      BY <1>1, <3>1 DEF SenderRec, Results
    <3> HIDE DEF y
    <3> QED
      BY <1>1, <3>1, <3>2, <3>3
  <2>3. CASE snd[s].reply \notin {"done", "conflict"}
    <3>1. Switched(s) = Failed(snd[s])
      BY <2>3 DEF Switched
    <3> QED
      BY <1>1, <3>1, FailedEffect
  <2> QED
    BY <2>1, <2>2, <2>3
<1> HIDE DEF Switched
<1> QED
  BY <1>0, <1>2, SenderOnly

LEMMA RestartStep ==
    ASSUME IInv, Restart
    PROVE  IInv'
<1>0. /\ restarts' = restarts + 1
      /\ locks' = [n \in Names |-> NoGate]
      /\ count' = [g \in Gates |-> 0]
      /\ holder' = [g \in Gates |-> NoHandler]
      /\ hd' = [h \in Handlers |-> Idle]
      /\ snd' = [s \in Senders |-> IF snd[s].pc = "wait" /\ snd[s].reply = "none"
                                   THEN [snd[s] EXCEPT !.reply = "error"] ELSE snd[s]]
      /\ UNCHANGED <<part, drop, put>>
  BY DEF Restart
<1>1. /\ snd' \in [Senders -> SenderRec]
      /\ \A s \in Senders : /\ snd'[s].pc = snd[s].pc
                            /\ snd'[s].attempt = snd[s].attempt
                            /\ snd'[s].conflicts = snd[s].conflicts
  <2>1. ASSUME NEW s \in Senders
        PROVE  /\ snd[s] \in SenderRec
               /\ [snd[s] EXCEPT !.reply = "error"] \in SenderRec
               /\ [snd[s] EXCEPT !.reply = "error"].pc = snd[s].pc
               /\ [snd[s] EXCEPT !.reply = "error"].attempt = snd[s].attempt
               /\ [snd[s] EXCEPT !.reply = "error"].conflicts = snd[s].conflicts
    <3>1. snd[s] \in SenderRec
      BY HandlerTypes DEF IInv
    <3> QED
      BY <3>1 DEF SenderRec, Results
  <2> QED
    BY <1>0, <2>1
<1>2. Cardinality(Handlers) \in Nat
  BY HandlersAssumption, FS_CardinalityType
<1>3. hd' \in [Handlers -> HandlerRec] /\ \A h \in Handlers : hd'[h] = Idle
  BY <1>0, HandlerTypes DEF IInv
<1>4. Idle.pc = "free" /\ Idle.gate = NoGate /\ Idle.res = "none"
  BY DEF Idle
<1>5. TypeOK'
  BY <1>0, <1>1, <1>2, <1>3
     DEF IInv, TypeOK, HandlerRec, HandlerPcs, Results, SenderRec
<1>6. HandlerInv' /\ HolderInv' /\ RenameInv'
  BY <1>3, <1>4 DEF HandlerInv, HolderInv, RenameInv, Critical
<1>7. GateOfName' /\ GatesPruned'
  BY <1>0, <1>3, <1>4 DEF GateOfName, GatesPruned
<1>8. CountInv'
  <2>1. \A g \in Gates : Users(g)' = {}
    BY <1>3, <1>4, GatesAssumption DEF Users
  <2> QED
    BY <1>0, <2>1, FS_EmptySet DEF CountInv
<1>9. BudgetInv'
  BY <1>1 DEF IInv, BudgetInv
<1>10. DeliveredIsIntact'
  BY <1>0 DEF IInv, DeliveredIsIntact
<1> QED
  BY <1>5, <1>6, <1>7, <1>8, <1>9, <1>10 DEF IInv

LEMMA StutterStep ==
    ASSUME IInv, UNCHANGED vars
    PROVE  IInv'
<1>1. UNCHANGED <<part, drop, locks, count, holder, hd, snd, restarts, put>>
  BY DEF vars, gateVars
<1>2. TypeOK' /\ HandlerInv' /\ GateOfName' /\ HolderInv' /\ GatesPruned' /\ BudgetInv'
  BY <1>1 DEF IInv, TypeOK, HandlerInv, GateOfName, HolderInv, GatesPruned, BudgetInv, NameOfH
<1>3. CountInv' /\ RenameInv' /\ DeliveredIsIntact'
  BY <1>1 DEF IInv, CountInv, Users, RenameInv, DeliveredIsIntact, NameOfH
<1> QED
  BY <1>2, <1>3 DEF IInv

LEMMA NextIInv == IInv /\ [Next]_vars => IInv'
<1> SUFFICES ASSUME IInv, [Next]_vars PROVE IInv'
  OBVIOUS
<1>1. ASSUME NEW h \in Handlers, HandlerStep(h) PROVE IInv'
  BY <1>1, AcquireStep, LockStep, FinishOnlyStep, OpenPartStep, CopyByteStep, CopyDoneStep,
     ChecksumMismatchStep, UniquePathStep, RenameStep, LeaveStep
     DEF HandlerStep
<1>2. ASSUME NEW s \in Senders, SenderStep(s) PROVE IInv'
  BY <1>2, QueryStep, AttemptFailsStep, PutStep, ReplyStep DEF SenderStep
<1>3. ASSUME NEW s \in Senders, NEW h \in Handlers, ConnDrops(s, h) PROVE IInv'
  BY <1>3, ConnDropsStep
<1>4. CASE Restart
  BY <1>4, RestartStep
<1>5. CASE UNCHANGED vars
  BY <1>5, StutterStep
<1> QED
  BY <1>1, <1>2, <1>3, <1>4, <1>5 DEF Next

-----------------------------------------------------------------------------
(* The gates and the files.                                                *)

\* IInv is an invariant of the receiver and its senders.
THEOREM Invariance == Spec => []IInv
<1>1. Init => IInv
  BY InitDInv DEF DInv
<1> QED
  BY <1>1, NextIInv, PTL DEF Spec

\* The per-name gate works although its object comes and goes: one handler of a name
\* at a time is inside, and the map keeps a gate exactly while a handler refers to it.
THEOREM GateWorks == Spec => []GateInv
<1>1. IInv => GateInv
  <2> SUFFICES ASSUME IInv PROVE GateInv
    OBVIOUS
  <2>1. SameNameExclusive
    BY Exclusion DEF IInv, SameNameExclusive
  <2> QED
    BY <2>1 DEF IInv, GateInv
<1> QED
  BY Invariance, <1>1, PTL

\* What is in the drop folder was there before or is a sender's complete file.
THEOREM DeliveredFilesAreIntact == Spec => []DeliveredIsIntact
<1>1. IInv => DeliveredIsIntact
  BY DEF IInv
<1> QED
  BY Invariance, <1>1, PTL

-----------------------------------------------------------------------------
(* Delivery.                                                               *)

\* Who comes to rename has just found its destination free, who reports success has
\* just renamed, and nothing else touches the drop folder.
HandlerEffect(h) ==
    /\ \A i \in Handlers : i # h => hd'[i] = hd[i]
    /\ hd'[h].pc = "rename" => \E k \in Tries : UniquePath(h, k)
    /\ hd'[h].res = "done" => hd'[h].by = hd[h].by /\ (hd[h].res = "done" \/ Rename(h))
    /\ UNCHANGED <<drop, put>> \/ Rename(h)
    /\ snd' = snd \/ Leave(h)

LEMMA HandlerStepEffect ==
    ASSUME IInv, NEW h \in Handlers, HandlerStep(h)
    PROVE  HandlerEffect(h)
<1>1. hd \in [Handlers -> HandlerRec] /\ hd[h] \in HandlerRec
  BY HandlerTypes DEF IInv
<1>2. ASSUME NEW r, Finish(h, r), UNCHANGED <<drop, put>> \/ Rename(h), snd' = snd,
             r = "done" => Rename(h)
      PROVE  HandlerEffect(h)
  <2>1. /\ Finished(h, r).pc = "unlock" /\ Finished(h, r).by = hd[h].by
        /\ Finished(h, r).res = "done" => r = "done"
    BY DEF Finished, Idle
  <2>2. hd' = [hd EXCEPT ![h] = Finished(h, r)]
    BY <1>2 DEF Finish, Finished
  <2> HIDE DEF Finished
  <2> QED
    BY <1>1, <1>2, <2>1, <2>2 DEF HandlerEffect
<1>3. CASE \E g \in Gates : Acquire(h, g)
  <2>1. PICK g \in Gates : Acquire(h, g)
    BY <1>3
  <2> DEFINE r == [hd[h] EXCEPT !.pc = "lock", !.gate = g]
  <2>2. r.pc = "lock" /\ r.by = hd[h].by /\ r.res = hd[h].res /\ hd' = [hd EXCEPT ![h] = r]
    BY <1>1, <2>1 DEF Acquire, HandlerRec
  <2> HIDE DEF r
  <2> QED
    BY <1>1, <2>1, <2>2 DEF HandlerEffect, Acquire
<1>4. CASE Lock(h)
  <2> DEFINE r == [hd[h] EXCEPT !.pc = "check"]
  <2>1. r.pc = "check" /\ r.by = hd[h].by /\ r.res = hd[h].res /\ hd' = [hd EXCEPT ![h] = r]
    BY <1>1, <1>4 DEF Lock, HandlerRec
  <2> HIDE DEF r
  <2> QED
    BY <1>1, <1>4, <2>1 DEF HandlerEffect, Lock
<1>5. CASE Unlock(h)
  <2> DEFINE r == [hd[h] EXCEPT !.pc = "leave"]
  <2>1. r.pc = "leave" /\ r.by = hd[h].by /\ r.res = hd[h].res /\ hd' = [hd EXCEPT ![h] = r]
    BY <1>1, <1>5 DEF Unlock, HandlerRec
  <2> HIDE DEF r
  <2> QED
    BY <1>1, <1>5, <2>1 DEF HandlerEffect, Unlock
<1>6. CASE OpenPart(h)
  <2> DEFINE r == [hd[h] EXCEPT !.pc = "copy", !.cur = Len(part[NameOfH(h)])]
  <2>1. r.pc = "copy" /\ r.by = hd[h].by /\ r.res = hd[h].res /\ hd' = [hd EXCEPT ![h] = r]
    BY <1>1, <1>6 DEF OpenPart, HandlerRec
  <2> HIDE DEF r
  <2> QED
    BY <1>1, <1>6, <2>1 DEF HandlerEffect, OpenPart
<1>7. CASE CopyByte(h)
  <2> DEFINE r == [hd[h] EXCEPT !.got = hd[h].got + 1]
  <2>1. /\ r.pc = hd[h].pc /\ r.by = hd[h].by /\ r.res = hd[h].res /\ hd' = [hd EXCEPT ![h] = r]
        /\ hd[h].pc = "copy"
    BY <1>1, <1>7 DEF CopyByte, HandlerRec
  <2> HIDE DEF r
  <2> QED
    BY <1>1, <1>7, <2>1 DEF HandlerEffect, CopyByte
<1>8. CASE CopyDone(h)
  <2> DEFINE r == [hd[h] EXCEPT !.pc = "verify"]
  <2>1. CASE Finish(h, "progress")
    BY <1>2, <1>8, <2>1 DEF CopyDone
  <2>2. CASE hd' = [hd EXCEPT ![h] = r]
    <3>1. r.pc = "verify" /\ r.by = hd[h].by /\ r.res = hd[h].res
      BY <1>1 DEF HandlerRec
    <3> HIDE DEF r
    <3> QED
      BY <1>1, <1>8, <2>2, <3>1 DEF HandlerEffect, CopyDone
  <2> QED
    BY <1>8, <2>1, <2>2 DEF CopyDone
<1>9. CASE OffsetConflict(h)
  BY <1>2, <1>9 DEF OffsetConflict
<1>10. CASE CopyFails(h)
  BY <1>2, <1>10 DEF CopyFails
<1>11. CASE FileError(h)
  BY <1>2, <1>11 DEF FileError
<1>12. CASE ChecksumMismatch(h)
  BY <1>2, <1>12 DEF ChecksumMismatch
<1>13. CASE \E k \in Tries : UniquePath(h, k)
  <2>1. PICK k \in Tries : UniquePath(h, k)
    BY <1>13
  <2> DEFINE r == [hd[h] EXCEPT !.pc = "rename", !.dest = k]
  <2>2. r.by = hd[h].by /\ r.res = hd[h].res /\ hd' = [hd EXCEPT ![h] = r] /\ UNCHANGED <<drop, put>> /\ snd' = snd
    BY <1>1, <2>1 DEF UniquePath, HandlerRec
  <2> HIDE DEF r
  <2> QED
    BY <1>1, <1>13, <2>2 DEF HandlerEffect
<1>14. CASE Rename(h)
  <2>1. Finish(h, "done") /\ snd' = snd
    BY <1>14 DEF Rename
  <2> QED
    BY <1>2, <1>14, <2>1
<1>15. CASE Leave(h)
  <2>1. Idle.pc = "free" /\ Idle.res = "none"
    BY DEF Idle
  <2>2. hd' = [hd EXCEPT ![h] = Idle] /\ UNCHANGED <<drop, put>>
    BY <1>15 DEF Leave
  <2> QED
    BY <1>1, <1>15, <2>1, <2>2 DEF HandlerEffect
<1> QED
  BY <1>3, <1>4, <1>5, <1>6, <1>7, <1>8, <1>9, <1>10, <1>11, <1>12, <1>13, <1>14, <1>15
     DEF HandlerStep

\* The same of the other steps: they leave the drop folder alone.
OtherStep ==
    \/ \E s \in Senders : SenderStep(s) \/ \E h \in Handlers : ConnDrops(s, h)
    \/ Restart
    \/ UNCHANGED vars

LEMMA OtherStepEffect ==
    ASSUME IInv, OtherStep
    PROVE  /\ UNCHANGED <<drop, put>>
           /\ \A i \in Handlers :
                 /\ hd'[i].pc = "rename" => /\ hd[i].pc = "rename" /\ hd'[i].by = hd[i].by
                                            /\ hd'[i].dest = hd[i].dest
                 /\ hd'[i].res = "done" => hd[i].res = "done" /\ hd'[i].by = hd[i].by
           /\ \A s \in Senders :
                 /\ snd'[s].reply = "done" => snd[s].reply = "done"
                 /\ snd'[s].pc = "ok" => snd[s].pc = "ok" \/ snd[s].reply = "done"
<1> DEFINE Goal == /\ UNCHANGED <<drop, put>>
                   /\ \A i \in Handlers :
                         /\ hd'[i].pc = "rename" => /\ hd[i].pc = "rename" /\ hd'[i].by = hd[i].by
                                                    /\ hd'[i].dest = hd[i].dest
                         /\ hd'[i].res = "done" => hd[i].res = "done" /\ hd'[i].by = hd[i].by
                   /\ \A s \in Senders :
                         /\ snd'[s].reply = "done" => snd[s].reply = "done"
                         /\ snd'[s].pc = "ok" => snd[s].pc = "ok" \/ snd[s].reply = "done"
<1>1. /\ hd \in [Handlers -> HandlerRec] /\ snd \in [Senders -> SenderRec]
  BY HandlerTypes DEF IInv
\* A step that only changes the record of s.
<1>2. ASSUME NEW s \in Senders, NEW y, snd' = [snd EXCEPT ![s] = y], hd' = hd, UNCHANGED <<drop, put>>,
             y.reply = "done" => snd[s].reply = "done", y.pc = "ok" => snd[s].reply = "done"
      PROVE  Goal
  BY <1>1, <1>2
<1>3. ASSUME NEW s \in Senders, Query(s) PROVE Goal
  <2> DEFINE k == IF Len(part[NameOf[s]]) > Size[s] THEN 0 ELSE Len(part[NameOf[s]])
             y == [snd[s] EXCEPT !.pc = "put", !.off = k]
  <2>1. snd' = [snd EXCEPT ![s] = y] /\ hd' = hd /\ UNCHANGED <<drop, put>>
    BY <1>3 DEF Query
  <2>2. y.reply = snd[s].reply /\ y.pc = "put"
    BY <1>1 DEF SenderRec
  <2> HIDE DEF y, Goal
  <2> QED
    BY <1>2, <2>1, <2>2
<1>4. ASSUME NEW s \in Senders, AttemptFails(s) PROVE Goal
  <2>1. snd' = [snd EXCEPT ![s] = Failed(snd[s])] /\ hd' = hd /\ UNCHANGED <<drop, put>>
    BY <1>4 DEF AttemptFails
  <2>2. snd[s] \in SenderRec /\ snd[s].attempt <= MaxRetries /\ snd[s].conflicts <= MaxConflicts
    BY <1>1, <1>4 DEF AttemptFails, IInv, BudgetInv
  <2>3. Failed(snd[s]).reply = "none" /\ Failed(snd[s]).pc # "ok"
    BY <2>2, FailedEffect
  <2> HIDE DEF Goal
  <2> QED
    BY <1>2, <2>1, <2>3
<1>5. ASSUME NEW s \in Senders, Reply(s) PROVE Goal
  <2>1. hd' = hd /\ UNCHANGED <<drop, put>>
    BY <1>5 DEF Reply
  <2>2. /\ snd' = [snd EXCEPT ![s] = Switched(s)]
        /\ Switched(s).pc = "ok" => snd[s].reply = "done"
        /\ Switched(s).reply = "none"
    BY <1>5, ReplyStep
  <2> HIDE DEF Goal
  <2> QED
    BY <1>2, <2>1, <2>2
<1>6. ASSUME NEW s \in Senders, NEW h \in Handlers, Put(s, h) PROVE Goal
  <2> DEFINE r == [Idle EXCEPT !.pc = "acquire", !.by = s, !.off = snd[s].off, !.live = TRUE]
             y == [snd[s] EXCEPT !.pc = "wait", !.off = 0]
  <2>1. hd' = [hd EXCEPT ![h] = r] /\ snd' = [snd EXCEPT ![s] = y] /\ UNCHANGED <<drop, put>>
    BY <1>6 DEF Put
  <2>2. r.pc = "acquire" /\ r.res = "none" /\ y.reply = snd[s].reply /\ y.pc = "wait"
    BY <1>1 DEF Idle, SenderRec
  <2> HIDE DEF r, y
  <2> QED
    BY <1>1, <2>1, <2>2
<1>7. ASSUME NEW s \in Senders, NEW h \in Handlers, ConnDrops(s, h) PROVE Goal
  <2> DEFINE r == [hd[h] EXCEPT !.live = FALSE, !.res = "none"]
             y == [snd[s] EXCEPT !.reply = "error"]
  <2>1. hd' = [hd EXCEPT ![h] = r] /\ snd' = [snd EXCEPT ![s] = y] /\ UNCHANGED <<drop, put>>
    BY <1>7 DEF ConnDrops
  <2>2. /\ r.pc = hd[h].pc /\ r.by = hd[h].by /\ r.dest = hd[h].dest /\ r.res = "none"
        /\ y.reply = "error" /\ y.pc = snd[s].pc
    BY <1>1 DEF HandlerRec, SenderRec
  <2> HIDE DEF r, y
  <2> QED
    BY <1>1, <2>1, <2>2
<1>8. ASSUME Restart PROVE Goal
  <2>1. /\ UNCHANGED <<drop, put>>
        /\ hd' = [h \in Handlers |-> Idle]
        /\ snd' = [s \in Senders |-> IF snd[s].pc = "wait" /\ snd[s].reply = "none"
                                     THEN [snd[s] EXCEPT !.reply = "error"] ELSE snd[s]]
    BY <1>8 DEF Restart
  <2>2. Idle.pc = "free" /\ Idle.res = "none"
    BY DEF Idle
  <2>3. \A s \in Senders : /\ [snd[s] EXCEPT !.reply = "error"].reply = "error"
                           /\ [snd[s] EXCEPT !.reply = "error"].pc = snd[s].pc
    BY <1>1 DEF SenderRec
  <2> QED
    BY <2>1, <2>2, <2>3
<1>9. ASSUME UNCHANGED vars PROVE Goal
  BY <1>9 DEF vars
<1> QED
  BY <1>3, <1>4, <1>5, <1>6, <1>7, <1>8, <1>9 DEF OtherStep, SenderStep

LEMMA StepKinds ==
    ASSUME [Next]_vars
    PROVE  (\E h \in Handlers : HandlerStep(h)) \/ OtherStep
BY DEF Next, OtherStep

\* What a rename does to the drop folder.
LEMMA RenameEffect ==
    ASSUME IInv, NEW h \in Handlers, Rename(h)
    PROVE  /\ hd[h].pc = "rename" /\ hd[h].by \in Senders /\ NameOfH(h) \in Names
           /\ hd[h].dest \in DOMAIN Cands[NameOfH(h)]
           /\ \A p \in Paths :
                 IF p = Cands[NameOfH(h)][hd[h].dest]
                 THEN drop'[p] = File(hd[h].by) /\ put'[p] = put[p] \cup {hd[h].by}
                 ELSE drop'[p] = drop[p] /\ put'[p] = put[p]
<1>1. /\ hd[h].pc = "rename"
      /\ drop' = [drop EXCEPT ![Cands[NameOfH(h)][hd[h].dest]] = part[NameOfH(h)]]
      /\ put' = [put EXCEPT ![Cands[NameOfH(h)][hd[h].dest]] = @ \cup {hd[h].by}]
  BY DEF Rename
<1>2. /\ hd[h].by \in Senders /\ NameOfH(h) \in Names
      /\ part[NameOfH(h)] = File(hd[h].by) /\ hd[h].dest \in DOMAIN Cands[NameOfH(h)]
  BY <1>1, NameType DEF IInv, RenameInv
<1> QED
  BY <1>1, <1>2 DEF IInv, TypeOK

\* Where nothing is, nothing was delivered, and nothing was there before.
LEMMA FreePath ==
    ASSUME IInv, NEW p \in Paths, drop[p] = NoFile
    PROVE  p \notin Present /\ put[p] = {}
<1>1. \A s \in put[p] : drop[p] # File(s)
  BY FileIsSomething DEF IInv, TypeOK
<1>2. put[p] = {} /\ Before(p) = NoFile
  BY <1>1 DEF IInv, DeliveredIsIntact
<1>3. Old # NoFile
  <2>1. Len(NoFile) = 1
    BY DEF NoFile
  <2>2. Len(Old) = 2
    BY DEF Old
  <2> QED
    BY <2>1, <2>2
<1> QED
  BY <1>2, <1>3 DEF Before

\* A step either leaves a path of the drop folder as it is, or puts there the file
\* of an upload whose name none of the earlier ones had.
LEMMA PathEffect ==
    ASSUME IInv, DestFresh, [Next]_vars, NEW p \in Paths
    PROVE  \/ drop'[p] = drop[p] /\ put'[p] = put[p]
           \/ \E t \in Senders : /\ drop'[p] = File(t) /\ put'[p] = put[p] \cup {t}
                                 /\ p \notin Present
                                 /\ \A s \in put[p] : NameOf[s] # NameOf[t]
<1>1. CASE \E h \in Handlers : HandlerStep(h)
  <2>1. PICK h \in Handlers : HandlerEffect(h)
    BY <1>1, HandlerStepEffect
  <2>2. CASE Rename(h)
    BY <2>2, RenameEffect DEF DestFresh, NameOfH
  <2> QED
    BY <2>1, <2>2 DEF HandlerEffect
<1>2. CASE OtherStep
  BY <1>2, OtherStepEffect
<1> QED
  BY <1>1, <1>2, StepKinds

\* A file that arrived stays, unless an upload of another name takes its path.
LEMMA ArrivedStays ==
    ASSUME IInv, DestFresh, [Next]_vars, NEW s \in Senders, Arrived(s)
    PROVE  Arrived(s)'
<1>1. PICK i \in DOMAIN Cands[NameOf[s]] :
         LET p == Cands[NameOf[s]][i]
         IN  /\ s \in put[p]
             /\ \/ drop[p] = File(s)
                \/ \E t \in put[p] : NameOf[t] # NameOf[s] /\ drop[p] = File(t)
  BY DEF Arrived
<1>2. PICK p \in Paths : p = Cands[NameOf[s]][i]
  BY FilesAssumption DEF Paths
<1>3. /\ s \in put'[p]
      /\ \/ drop'[p] = File(s)
         \/ \E t \in put'[p] : NameOf[t] # NameOf[s] /\ drop'[p] = File(t)
  <2>1. CASE drop'[p] = drop[p] /\ put'[p] = put[p]
    BY <1>1, <1>2, <2>1
  <2>2. CASE \E t \in Senders : /\ drop'[p] = File(t) /\ put'[p] = put[p] \cup {t}
                                /\ \A r \in put[p] : NameOf[r] # NameOf[t]
    BY <1>1, <1>2, <2>2
  <2> QED
    BY <2>1, <2>2, PathEffect
<1> QED
  BY <1>2, <1>3 DEF Arrived

LEMMA NextDestFresh ==
    ASSUME IInv, DestFresh, [Next]_vars
    PROVE  DestFresh'
<1> SUFFICES ASSUME NEW i \in Handlers, hd'[i].pc = "rename"
             PROVE  LET p == Cands[NameOf[hd'[i].by]][hd'[i].dest]
                    IN  p \notin Present /\ \A s \in put'[p] : NameOf[s] # NameOf[hd'[i].by]
  BY DEF DestFresh, NameOfH
<1>1. CASE \E h \in Handlers : HandlerStep(h)
  <2>1. PICK h \in Handlers : HandlerEffect(h)
    BY <1>1, HandlerStepEffect
  <2>2. CASE i = h
    <3>1. PICK k \in Tries : UniquePath(h, k)
      BY <2>1, <2>2 DEF HandlerEffect
    <3> DEFINE r == [hd[h] EXCEPT !.pc = "rename", !.dest = k]
               p == Cands[NameOfH(h)][k]
    <3>2. /\ hd[h].pc = "verify" /\ k \in DOMAIN Cands[NameOfH(h)]
          /\ drop[p] = NoFile /\ UNCHANGED <<drop, put>>
          /\ hd' = [hd EXCEPT ![h] = r]
      BY <3>1 DEF UniquePath
    <3>3. hd \in [Handlers -> HandlerRec] /\ r.by = hd[h].by /\ r.dest = k
      BY HandlerTypes DEF IInv, HandlerRec
    <3>4. NameOfH(h) \in Names
      BY <3>2, NameType DEF IInv
    <3>5. p \in Paths
      BY <3>2, <3>4 DEF Paths
    <3>6. p \notin Present /\ put[p] = {}
      BY <3>2, <3>5, FreePath
    <3> HIDE DEF r
    <3> QED
      BY <2>2, <3>2, <3>3, <3>6 DEF NameOfH
  <2>3. CASE i # h
    <3>1. hd'[i] = hd[i] /\ hd[i].pc = "rename"
      BY <2>1, <2>3 DEF HandlerEffect
    <3>2. /\ hd[i].dest \in DOMAIN Cands[NameOfH(i)] /\ NameOfH(i) \in Names
      BY <3>1, NameType DEF IInv, RenameInv
    <3>3. PICK p \in Paths : p = Cands[NameOfH(i)][hd[i].dest]
      BY <3>2 DEF Paths
    <3>4. p \notin Present /\ \A s \in put[p] : NameOf[s] # NameOfH(i)
      BY <3>1, <3>3 DEF DestFresh
    <3>5. CASE Rename(h)
      <4>1. /\ hd[h].pc = "rename"
            /\ put'[p] = put[p] \/ put'[p] = put[p] \cup {hd[h].by}
        BY <3>5, RenameEffect
      <4>2. NameOf[hd[h].by] # NameOfH(i)
        BY <2>3, <3>1, <4>1, Exclusion DEF IInv, Critical, NameOfH
      <4> QED
        BY <3>1, <3>3, <3>4, <4>1, <4>2 DEF NameOfH
    <3>6. CASE UNCHANGED <<drop, put>>
      BY <3>1, <3>3, <3>4, <3>6 DEF NameOfH
    <3> QED
      BY <2>1, <3>5, <3>6 DEF HandlerEffect
  <2> QED
    BY <2>2, <2>3
<1>2. CASE OtherStep
  BY <1>2, OtherStepEffect DEF DestFresh, NameOfH
<1> QED
  BY <1>1, <1>2, StepKinds

LEMMA NextDInv ==
    ASSUME DInv, [Next]_vars
    PROVE  DInv'
<1> USE DEF DInv
<1>1. DestFresh'
  BY NextDestFresh
<1>2. SuccessInv'
  <2>1. ASSUME NEW i \in Handlers, hd'[i].res = "done"
        PROVE  hd'[i].by \in Senders /\ \E s \in Senders : s = hd'[i].by /\ Arrived(s)'
    <3>0. hd'[i].by = hd[i].by /\ (hd[i].res = "done" \/ Rename(i))
      <4>1. CASE \E h \in Handlers : HandlerStep(h)
        BY <2>1, <4>1, HandlerStepEffect DEF HandlerEffect
      <4>2. CASE OtherStep
        BY <2>1, <4>2, OtherStepEffect
      <4> QED
        BY <4>1, <4>2, StepKinds
    <3>1. CASE hd[i].res = "done"
      <4>1. hd[i].by \in Senders /\ Arrived(hd[i].by)
        BY <3>1 DEF IInv, HandlerInv, SuccessInv
      <4>2. PICK s \in Senders : s = hd[i].by
        BY <4>1
      <4>3. Arrived(s)
        BY <4>1, <4>2
      <4> QED
        BY <3>0, <4>2, <4>3, ArrivedStays
    <3>2. CASE Rename(i)
      <4>1. /\ hd[i].by \in Senders /\ NameOfH(i) \in Names
            /\ hd[i].dest \in DOMAIN Cands[NameOfH(i)]
            /\ \A p \in Paths : p = Cands[NameOfH(i)][hd[i].dest] =>
                   drop'[p] = File(hd[i].by) /\ hd[i].by \in put'[p]
        BY <3>2, RenameEffect
      <4>2. PICK s \in Senders : s = hd[i].by
        BY <4>1
      <4>3. PICK k : k = hd[i].dest
        OBVIOUS
      <4>4. k \in DOMAIN Cands[NameOf[s]] /\ Cands[NameOf[s]][k] \in Paths
        BY <4>1, <4>2, <4>3 DEF Paths, NameOfH
      <4>5. drop'[Cands[NameOf[s]][k]] = File(s) /\ s \in put'[Cands[NameOf[s]][k]]
        BY <4>1, <4>2, <4>3, <4>4 DEF NameOfH
      <4>6. Arrived(s)'
        BY <4>4, <4>5 DEF Arrived
      <4> QED
        BY <3>0, <4>2, <4>6
    <3> QED
      BY <3>0, <3>1, <3>2
  <2>2. ASSUME NEW s \in Senders, snd'[s].reply = "done" \/ snd'[s].pc = "ok"
        PROVE  Arrived(s)'
    <3>1. \/ snd[s].reply = "done" \/ snd[s].pc = "ok"
          \/ \E h \in Handlers : hd[h].res = "done" /\ hd[h].by = s
      <4>1. CASE \E h \in Handlers : HandlerStep(h)
        <5>1. PICK h \in Handlers : HandlerEffect(h)
          BY <4>1, HandlerStepEffect
        <5>2. CASE snd' = snd
          BY <2>2, <5>2
        <5>3. CASE Leave(h)
          <6>1. CASE hd[h].live
            <7>1. hd[h].by \in Senders
              BY <5>3, NameType DEF Leave, IInv
            <7>2. hd[h].res \in Results
              BY HandlerTypes DEF IInv, HandlerRec
            <7>3. snd' = [snd EXCEPT ![hd[h].by].reply = hd[h].res]
              BY <5>3, <6>1 DEF Leave
            <7>4. /\ snd'[s].pc = snd[s].pc
                  /\ snd'[s].reply = IF s = hd[h].by THEN hd[h].res ELSE snd[s].reply
              BY <7>1, <7>2, <7>3, ReplyEffect DEF IInv
            <7> QED
              BY <2>2, <7>4
          <6>2. CASE ~hd[h].live
            BY <2>2, <5>3, <6>2 DEF Leave
          <6> QED
            BY <6>1, <6>2
        <5> QED
          BY <5>1, <5>2, <5>3 DEF HandlerEffect
      <4>2. CASE OtherStep
        BY <2>2, <4>2, OtherStepEffect
      <4> QED
        BY <4>1, <4>2, StepKinds
    <3>2. Arrived(s)
      BY <3>1 DEF SuccessInv
    <3> QED
      BY <3>2, ArrivedStays
  <2>3. ASSUME NEW i \in Handlers, hd'[i].res = "done"
        PROVE  Arrived(hd[i].by)'
    BY <2>1, <2>3 DEF Arrived
  <2> QED
    BY <2>2, <2>3 DEF SuccessInv
<1> QED
  BY <1>1, <1>2, NextIInv

\* SendFile returns success only if its file arrived whole in the drop folder, and
\* nothing but an upload of another name has replaced it.
THEOREM SuccessMeansDelivered == Spec => []SentMeansDelivered
<1>1. DInv /\ [Next]_vars => DInv'
  BY NextDInv
<1>2. DInv => SentMeansDelivered
  BY DEF DInv, SuccessInv, SentMeansDelivered
<1> QED
  BY InitDInv, <1>1, <1>2, PTL DEF Spec

\* No arriving file replaces one that was there before, nor one that an upload of
\* its own name delivered.
THEOREM NothingIsClobbered == Spec => ClobbersOnlyAcrossNames
<1>1. DInv /\ [Next]_vars => DInv'
  BY NextDInv
<1>2. DInv /\ [Next]_vars =>
         [\A p \in Paths : drop[p] # NoFile /\ drop'[p] # drop[p] =>
             /\ p \notin Present
             /\ \E t \in Senders : /\ drop'[p] = File(t)
                                   /\ \A s \in put[p] : NameOf[s] # NameOf[t]]_vars
  BY PathEffect DEF DInv
<1> QED
  BY InitDInv, <1>1, <1>2, PTL DEF Spec, ClobbersOnlyAcrossNames
=============================================================================
