---------------------------- MODULE FileTransfer ----------------------------
(***************************************************************************)
(* Resumable file drop:                                                    *)
(*   internal/filetransfer/sender.go    SendFile, remoteOffset, putFrom    *)
(*   internal/filetransfer/receiver.go  Receiver, its per-name gate,       *)
(*                                      handlePut                          *)
(*   internal/filetransfer/protocol.go  uniquePath, fileSHA256             *)
(*                                                                         *)
(* A sender runs one SendFile.  Each PUT is a handler goroutine of its own *)
(* at the receiver, which may outlive the sender's connection: the sender  *)
(* retries while the old handler still drains what was buffered.  A byte   *)
(* is the sender it comes from and its position, so a checksum matches     *)
(* exactly when the part file holds all of one file in order.              *)
(***************************************************************************)
EXTENDS Naturals, Sequences, FiniteSets

CONSTANTS
    Senders,     \* calls of SendFile
    Calls,       \* which of them run together
    Handlers,    \* PUT handler goroutines alive at one time
    Gates,       \* nameGate objects
    Names,       \* sanitised file names
    NameOf,      \* NameOf[s]: base name of the file s sends
    Size,        \* Size[s]: its length
    Cands,       \* Cands[n]: the paths uniquePath tries for n, in order
    Present,     \* paths at which the drop folder has a file already
    Leftovers,   \* what lengths the .part files of earlier transfers may have
    MaxRetries,  \* SendOptions.MaxRetries
    MaxRestarts, \* bound: restarts of the receiver's process
    NoSender, NoGate, NoHandler

ASSUME HandlersAssumption == IsFiniteSet(Handlers) /\ NoHandler \notin Handlers
ASSUME GatesAssumption == NoGate \notin Gates
ASSUME SendersAssumption == NoSender \notin Senders
VARIABLES
    part,     \* part[n]: contents of the .part file of n; <<>> if there is none
    drop,     \* drop[p]: contents of the delivered file at p
    locks,    \* Receiver.locks
    count,    \* count[g]: nameGate.n
    holder,   \* holder[g]: the handler that holds nameGate.mu
    hd,       \* hd[h]: a handler goroutine
    snd,      \* snd[s]: a SendFile call
    restarts, \* how often the receiver process was restarted (bounded)
    put       \* history: put[p] are the senders whose file was renamed to p

gateVars == <<locks, count, holder>>
vars     == <<part, drop, gateVars, hd, snd, restarts, put>>

Byte(s, i) == <<s, i>>
File(s)    == [i \in 1..Size[s] |-> Byte(s, i)]
Junk(k)    == [i \in 1..k |-> Byte(NoSender, i)]
Tries      == UNION {DOMAIN Cands[n] : n \in Names}
Paths      == UNION {{Cands[n][i] : i \in DOMAIN Cands[n]} : n \in Names}
NoFile     == <<Byte(NoSender, 0)>>   \* nothing at that path
Old        == <<Byte(NoSender, 0), Byte(NoSender, 0)>>   \* a file from before
Before(p)  == IF p \in Present THEN Old ELSE NoFile
Contents   == Seq((Senders \cup {NoSender}) \X Nat)

ASSUME FilesAssumption == /\ NameOf \in [Senders -> Names]
                          /\ Size \in [Senders -> Nat]
                          /\ Leftovers \subseteq [Names -> Nat]
                          /\ MaxRetries \in Nat /\ MaxRestarts \in Nat
                          /\ Present \subseteq Paths
                          /\ Calls \subseteq SUBSET Senders
ASSUME CandsAssumption == \A n \in Names : Cands[n] \in Seq(Paths)

MaxConflicts == 2 * (MaxRetries + 1) + 4

Idle == [pc |-> "free", by |-> NoSender, off |-> 0, cur |-> 0, got |-> 0,
         gate |-> NoGate, dest |-> 0, live |-> FALSE, res |-> "none"]

\* States of a handler between acquire and release.
Critical == {"check", "copy", "verify", "rename"}

\* Types of the receiver's and the senders' state.
TypeOK ==
    /\ part \in [Names -> Contents]
    /\ drop \in [Paths -> Contents]
    /\ locks \in [Names -> Gates \cup {NoGate}]
    /\ count \in [Gates -> 0..Cardinality(Handlers)]
    /\ holder \in [Gates -> Handlers \cup {NoHandler}]
    /\ hd \in [Handlers -> [pc : Critical \cup {"free", "acquire", "lock", "unlock", "leave"},
                            by : Senders \cup {NoSender}, off : Nat, cur : Nat, got : Nat,
                            gate : Gates \cup {NoGate}, dest : Nat, live : BOOLEAN,
                            res : {"none", "done", "progress", "conflict", "error"}]]
    /\ snd \in [Senders -> [pc : {"idle", "query", "put", "wait", "ok", "failed"},
                            off : Nat, attempt : 0..MaxRetries + 1,
                            conflicts : 0..MaxConflicts + 1,
                            reply : {"none", "done", "progress", "conflict", "error"}]]
    /\ restarts \in Nat
    /\ put \in [Paths -> SUBSET Senders]

Init ==
    /\ \E k \in Leftovers : part = [n \in Names |-> Junk(k[n])]
    /\ drop = [p \in Paths |-> Before(p)]
    /\ locks = [n \in Names |-> NoGate]
    /\ count = [g \in Gates |-> 0]
    /\ holder = [g \in Gates |-> NoHandler]
    /\ hd = [h \in Handlers |-> Idle]
    /\ \E c \in Calls :
          snd = [s \in Senders |-> [pc |-> IF s \in c THEN "query" ELSE "idle", off |-> 0,
                                    attempt |-> 0, conflicts |-> 0, reply |-> "none"]]
    /\ restarts = 0
    /\ put = [p \in Paths |-> {}]

-----------------------------------------------------------------------------
(* The sender.                                                             *)

\* One attempt failed; the loop goes on while attempt <= MaxRetries.
Failed(r) == [r EXCEPT !.attempt = @ + 1, !.reply = "none",
                       !.pc = IF r.attempt + 1 > MaxRetries THEN "failed" ELSE "query"]

\* remoteOffset: HEAD reads the size of the part file without the gate.  An
\* offset beyond the file restarts from 0.
Query(s) ==
    /\ snd[s].pc = "query"
    /\ LET held == Len(part[NameOf[s]])
       IN  snd' = [snd EXCEPT ![s].pc = "put", ![s].off = IF held > Size[s] THEN 0 ELSE held]
    /\ UNCHANGED <<part, drop, gateVars, hd, restarts, put>>

\* The query or the request fails, or its status is an error.
AttemptFails(s) ==
    /\ snd[s].pc \in {"query", "put"}
    /\ snd' = [snd EXCEPT ![s] = Failed(@)]
    /\ UNCHANGED <<part, drop, gateVars, hd, restarts, put>>

\* A new handler goroutine, any one that does not run.
FreeHandlers == {h \in Handlers : hd[h].pc = "free"}

\* putFrom: the request reaches handlePut and passes its header checks.
Put(s, h) ==
    /\ snd[s].pc = "put"
    /\ h \in FreeHandlers
    /\ h = CHOOSE i \in FreeHandlers : TRUE
    /\ hd' = [hd EXCEPT ![h] = [Idle EXCEPT !.pc = "acquire", !.by = s,
                                            !.off = snd[s].off, !.live = TRUE]]
    /\ snd' = [snd EXCEPT ![s].pc = "wait", ![s].off = 0]
    /\ UNCHANGED <<part, drop, gateVars, restarts, put>>

\* The connection of a running PUT breaks: the sender sees an error now, the
\* handler whenever it next has nothing left to read.
ConnDrops(s, h) ==
    /\ snd[s].pc = "wait" /\ snd[s].reply = "none"
    /\ hd[h].by = s /\ hd[h].live
    /\ hd' = [hd EXCEPT ![h].live = FALSE, ![h].res = "none"]
    /\ snd' = [snd EXCEPT ![s].reply = "error"]
    /\ UNCHANGED <<part, drop, gateVars, restarts, put>>

\* The switch on putFrom's result.
Reply_ConflictIsDone(s) ==
    /\ snd[s].pc = "wait"
    /\ snd[s].reply # "none"
    /\ snd' = [snd EXCEPT ![s] =
           CASE snd[s].reply \in {"done", "conflict"} -> [@ EXCEPT !.pc = "ok", !.reply = "none"]
             [] OTHER -> Failed(@)]
    /\ UNCHANGED <<part, drop, gateVars, hd, restarts, put>>
Reply_NoBudget(s) ==
    /\ snd[s].pc = "wait"
    /\ snd[s].reply # "none"
    /\ snd' = [snd EXCEPT ![s] =
           CASE snd[s].reply = "done" -> [@ EXCEPT !.pc = "ok", !.reply = "none"]
             [] OTHER -> [@ EXCEPT !.pc = "query", !.reply = "none"]]
    /\ UNCHANGED <<part, drop, gateVars, hd, restarts, put>>
Reply(s) ==
    /\ snd[s].pc = "wait"
    /\ snd[s].reply # "none"
    /\ snd' = [snd EXCEPT ![s] =
           CASE snd[s].reply = "done" -> [@ EXCEPT !.pc = "ok", !.reply = "none"]
             [] snd[s].reply = "conflict" ->
                  [@ EXCEPT !.conflicts = @ + 1, !.reply = "none",
                            !.pc = IF snd[s].conflicts + 1 > MaxConflicts THEN "failed" ELSE "query"]
             [] OTHER -> Failed(@)]
    /\ UNCHANGED <<part, drop, gateVars, hd, restarts, put>>

-----------------------------------------------------------------------------
(* The receiver: handlePut.                                                *)

NameOfH(h) == NameOf[hd[h].by]

\* A new gate: one that nobody refers to.  They are interchangeable, so it does
\* not matter which.
UnusedGates == {g \in Gates : count[g] = 0 /\ \A i \in Handlers : hd[i].gate # g}
FreshGate(g) == g \in UnusedGates /\ g = CHOOSE i \in UnusedGates : TRUE

\* acquire, under r.mu: find or create the gate and count this handler in.
Acquire(h, g) ==
    /\ hd[h].pc = "acquire"
    /\ IF locks[NameOfH(h)] # NoGate THEN g = locks[NameOfH(h)]
       ELSE FreshGate(g)
    /\ locks' = [locks EXCEPT ![NameOfH(h)] = g]
    /\ count' = [count EXCEPT ![g] = @ + 1]
    /\ hd' = [hd EXCEPT ![h].pc = "lock", ![h].gate = g]
    /\ UNCHANGED <<part, drop, holder, snd, restarts, put>>

\* acquire: g.mu.Lock()
Lock_NoWait(h) ==
    /\ hd[h].pc = "lock"
    /\ holder' = [holder EXCEPT ![hd[h].gate] = h]
    /\ hd' = [hd EXCEPT ![h].pc = "check"]
    /\ UNCHANGED <<part, drop, locks, count, snd, restarts, put>>
Lock(h) ==
    /\ hd[h].pc = "lock"
    /\ holder[hd[h].gate] = NoHandler
    /\ holder' = [holder EXCEPT ![hd[h].gate] = h]
    /\ hd' = [hd EXCEPT ![h].pc = "check"]
    /\ UNCHANGED <<part, drop, locks, count, snd, restarts, put>>

\* The handler returns with a response, which nobody gets if the connection is
\* broken; its local variables are dead.
Finish(h, r) ==
    hd' = [hd EXCEPT ![h] = [Idle EXCEPT !.pc = "unlock", !.by = hd[h].by,
                                         !.res = IF hd[h].live THEN r ELSE "none",
                                         !.gate = hd[h].gate, !.live = hd[h].live]]

\* The sender is ahead: 409 with the real offset.
OffsetConflict(h) ==
    /\ hd[h].pc = "check"
    /\ hd[h].off > Len(part[NameOfH(h)])
    /\ Finish(h, "conflict")
    /\ UNCHANGED <<part, drop, gateVars, snd, restarts, put>>

\* The sender is level or rewinds: the part file is cut to its offset, while
\* cur keeps the size from before the cut.
OpenPart(h) ==
    /\ hd[h].pc = "check"
    /\ hd[h].off <= Len(part[NameOfH(h)])
    /\ part' = [part EXCEPT ![NameOfH(h)] = SubSeq(@, 1, hd[h].off)]
    /\ hd' = [hd EXCEPT ![h].pc = "copy", ![h].cur = Len(part[NameOfH(h)])]
    /\ UNCHANGED <<drop, gateVars, snd, restarts, put>>

Total(h) == Size[hd[h].by]

\* io.LimitReader(req.Body, total - cur) and the body still have a byte.
MoreBody(h) == hd[h].cur + hd[h].got < Total(h) /\ hd[h].off + hd[h].got < Total(h)

\* io.Copy appends one byte.
CopyByte(h) ==
    /\ hd[h].pc = "copy"
    /\ MoreBody(h)
    /\ part' = [part EXCEPT ![NameOfH(h)] =
                   Append(@, Byte(hd[h].by, hd[h].off + hd[h].got + 1))]
    /\ hd' = [hd EXCEPT ![h].got = @ + 1]
    /\ UNCHANGED <<drop, gateVars, snd, restarts, put>>

\* The body ended or the limit is reached; newSize is cur + written.
CopyDone(h) ==
    /\ hd[h].pc = "copy"
    /\ ~MoreBody(h)
    /\ IF hd[h].cur + hd[h].got < Total(h)
       THEN Finish(h, "progress")
       ELSE hd' = [hd EXCEPT ![h].pc = "verify"]
    /\ UNCHANGED <<part, drop, gateVars, snd, restarts, put>>

\* The body is interrupted: the part file is kept.
CopyFails(h) ==
    /\ hd[h].pc = "copy"
    /\ ~hd[h].live
    /\ Finish(h, "progress")
    /\ UNCHANGED <<part, drop, gateVars, snd, restarts, put>>

\* The part file cannot be cut, opened, hashed or renamed: 500.
FileError(h) ==
    /\ hd[h].pc \in {"check", "verify", "rename"}
    /\ Finish(h, "error")
    /\ UNCHANGED <<part, drop, gateVars, snd, restarts, put>>

\* fileSHA256 differs from X-Sha256: the part file is removed, 422.
ChecksumMismatch(h) ==
    /\ hd[h].pc = "verify"
    /\ part[NameOfH(h)] # File(hd[h].by)
    /\ part' = [part EXCEPT ![NameOfH(h)] = <<>>]
    /\ Finish(h, "error")
    /\ UNCHANGED <<drop, gateVars, snd, restarts, put>>

\* The checksum matches; uniquePath picks the first candidate that is free.
UniquePath_First(h, i) ==
    /\ hd[h].pc = "verify"
    /\ part[NameOfH(h)] = File(hd[h].by)
    /\ i = 1
    /\ hd' = [hd EXCEPT ![h].pc = "rename", ![h].dest = i]
    /\ UNCHANGED <<part, drop, gateVars, snd, restarts, put>>
UniquePath_NoChecksum(h, i) ==
    /\ hd[h].pc = "verify"
    /\ i \in DOMAIN Cands[NameOfH(h)]
    /\ drop[Cands[NameOfH(h)][i]] = NoFile
    /\ \A j \in 1..i - 1 : drop[Cands[NameOfH(h)][j]] # NoFile
    /\ hd' = [hd EXCEPT ![h].pc = "rename", ![h].dest = i]
    /\ UNCHANGED <<part, drop, gateVars, snd, restarts, put>>
UniquePath(h, i) ==
    /\ hd[h].pc = "verify"
    /\ part[NameOfH(h)] = File(hd[h].by)
    /\ i \in DOMAIN Cands[NameOfH(h)]
    /\ drop[Cands[NameOfH(h)][i]] = NoFile
    /\ \A j \in 1..i - 1 : drop[Cands[NameOfH(h)][j]] # NoFile
    /\ hd' = [hd EXCEPT ![h].pc = "rename", ![h].dest = i]
    /\ UNCHANGED <<part, drop, gateVars, snd, restarts, put>>

\* os.Rename, which replaces whatever is at the destination by now.
Rename(h) ==
    /\ hd[h].pc = "rename"
    /\ drop' = [drop EXCEPT ![Cands[NameOfH(h)][hd[h].dest]] = part[NameOfH(h)]]
    /\ put' = [put EXCEPT ![Cands[NameOfH(h)][hd[h].dest]] = @ \cup {hd[h].by}]
    /\ part' = [part EXCEPT ![NameOfH(h)] = <<>>]
    /\ Finish(h, "done")
    /\ UNCHANGED <<gateVars, snd, restarts>>

\* release: g.mu.Unlock()
Unlock(h) ==
    /\ hd[h].pc = "unlock"
    /\ holder' = [holder EXCEPT ![hd[h].gate] = NoHandler]
    /\ hd' = [hd EXCEPT ![h].pc = "leave"]
    /\ UNCHANGED <<part, drop, locks, count, snd, restarts, put>>

\* release, under r.mu: count out, drop an unused gate.  The handler returns
\* and its response goes to the sender, if that still listens.
Leave(h) ==
    /\ hd[h].pc = "leave"
    /\ count' = [count EXCEPT ![hd[h].gate] = @ - 1]
    /\ locks' = IF count[hd[h].gate] = 1 THEN [locks EXCEPT ![NameOfH(h)] = NoGate] ELSE locks
    /\ hd' = [hd EXCEPT ![h] = Idle]
    /\ snd' = IF hd[h].live THEN [snd EXCEPT ![hd[h].by].reply = hd[h].res] ELSE snd
    /\ UNCHANGED <<part, drop, holder, restarts, put>>

\* The receiver's process ends and starts again: NewReceiver finds the files.
Restart ==
    /\ restarts < MaxRestarts
    /\ restarts' = restarts + 1
    /\ locks' = [n \in Names |-> NoGate]
    /\ count' = [g \in Gates |-> 0]
    /\ holder' = [g \in Gates |-> NoHandler]
    /\ hd' = [h \in Handlers |-> Idle]
    /\ snd' = [s \in Senders |-> IF snd[s].pc = "wait" /\ snd[s].reply = "none"
                                 THEN [snd[s] EXCEPT !.reply = "error"] ELSE snd[s]]
    /\ UNCHANGED <<part, drop, put>>

-----------------------------------------------------------------------------
HandlerStep(h) ==
    \/ \E g \in Gates : Acquire(h, g)
    \/ Lock(h) \/ OffsetConflict(h) \/ OpenPart(h)
    \/ CopyByte(h) \/ CopyDone(h) \/ CopyFails(h)
    \/ FileError(h) \/ ChecksumMismatch(h)
    \/ \E i \in Tries : UniquePath(h, i)
    \/ Rename(h) \/ Unlock(h) \/ Leave(h)

SenderStep(s) ==
    \/ Query(s)
    \/ AttemptFails(s)
    \/ \E h \in Handlers : Put(s, h)
    \/ Reply(s)

Next ==
    \/ \E h \in Handlers : HandlerStep(h)
    \/ \E s \in Senders : SenderStep(s) \/ \E h \in Handlers : ConnDrops(s, h)
    \/ Restart

Spec == Init /\ [][Next]_vars

\* While a goroutine can run, some goroutine does.  That is less than fairness to
\* each of them.
Fairness == WF_vars((\E h \in Handlers : HandlerStep(h)) \/ (\E s \in Senders : SenderStep(s)))

FairSpec == Spec /\ Fairness

-----------------------------------------------------------------------------
(* Properties.                                                             *)

\* Uploads of one name are serialised: two handlers of a name are never both
\* past acquire, although the gate object is dropped and created again while
\* handlers queue for it.
SameNameExclusive ==
    \A h, i \in Handlers :
        /\ hd[h].pc \in Critical /\ hd[i].pc \in Critical
        /\ NameOfH(h) = NameOfH(i)
        => h = i

\* The gate map is pruned: it holds a gate for a name exactly while a handler
\* uses it, so it stays bounded and never hands out a forgotten gate.
GatesPruned ==
    \A n \in Names : locks[n] # NoGate <=>
        \E h \in Handlers : hd[h].gate # NoGate /\ hd[h].gate = locks[n]

\* The per-name gate works although its object comes and goes: acquire and its
\* release keep one handler inside and no gate behind.
GateInv == TypeOK /\ SameNameExclusive /\ GatesPruned

\* What is at a path of the drop folder is what was there before or the complete
\* file of a sender, whatever concurrent uploads, leftovers, retries and restarts
\* mixed into the part file.
DeliveredIsIntact ==
    \A p \in Paths :
        \/ put[p] = {} /\ drop[p] = Before(p)
        \/ \E s \in put[p] : drop[p] = File(s)

\* The file that s sent arrived: it was renamed into the drop folder and is there,
\* unless the rename of an upload of another name has taken its path since.
Arrived(s) ==
    \E i \in DOMAIN Cands[NameOf[s]] :
        LET p == Cands[NameOf[s]][i]
        IN  /\ s \in put[p]
            /\ \/ drop[p] = File(s)
               \/ \E t \in put[p] : NameOf[t] # NameOf[s] /\ drop[p] = File(t)

\* SendFile returns nil only if its file has been delivered whole, and nothing but
\* an upload of another name has replaced it.
SentMeansDelivered == \A s \in Senders : snd[s].pc = "ok" => Arrived(s)

\* An arriving file never clobbers one that was there before, nor one that an
\* upload of its own name put there.  Between names nothing keeps it: os.Stat in
\* uniquePath and os.Rename are two steps, and the uploads of 'a' and 'a (1)' hold
\* different gates, so each may find 'a (1)' free and the second rename replace
\* what the first delivered.
ClobbersOnlyAcrossNames ==
    [][\A p \in Paths : drop[p] # NoFile /\ drop'[p] # drop[p] =>
           /\ p \notin Present
           /\ \E t \in Senders : /\ drop'[p] = File(t)
                                 /\ \A s \in put[p] : NameOf[s] # NameOf[t]]_vars

\* Every SendFile returns: neither failures nor conflicts keep it going.
SendReturns ==
    <>(\A s \in Senders : snd[s].pc \in {"idle", "ok", "failed"})

\* What handlePut says of a sender that rewinds: the part file is cut to the
\* requested offset and the body appended from there, so a body that arrived
\* whole leaves a part file that reaches the end of the file.
RewindAppends ==
    \A h \in Handlers :
        /\ hd[h].pc \in {"copy", "verify"}
        /\ ~MoreBody(h)
        /\ hd[h].live
        => Len(part[NameOfH(h)]) = Total(h)
=============================================================================
