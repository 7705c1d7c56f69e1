-------------------------- MODULE ServerManager_proofs --------------------------
(***************************************************************************)
(* Proofs about ServerManager, for any number of managers, ids, pids and   *)
(* ports.                                                                  *)
(***************************************************************************)
EXTENDS ServerManager, TLAPS

(***************************************************************************)
(* Types.  What a command knows at each of its steps joins TypeOK: without *)
(* it nothing says that the record it writes has a pid and a port.         *)
(***************************************************************************)
Known(c) ==
    /\ c.pc = "idle" => c.op = "none"
    /\ c.pc # "idle" => c.id \in ServerIds
    /\ c.pc \in {"find", "spawn"} => c.pid = NoPid
    /\ c.pc \in {"find", "spawn", "wait", "load"} => c.op = "start" /\ c.port \in Ports
    /\ c.pc \in {"look up", "kill"} => c.op \in {"stop", "restart"}
    /\ c.pc \in {"wait", "load", "kill", "truncate", "write"} =>
         c.pid \in Pids /\ c.port \in Ports

TypeInv == TypeOK /\ \A m \in Managers : Known(command[m])

(***************************************************************************)
(* Ids.  A command that changes the registry starts from rows it loaded.   *)
(***************************************************************************)
Unique(rows) == \A r, s \in rows : r.id = s.id => r = s

IdsInv == Unique(registry) /\ \A m \in Managers : Unique(command[m].rows)

-----------------------------------------------------------------------------
(***************************************************************************)
(* Type correctness.                                                       *)
(***************************************************************************)
\* The commands stay typed when one manager goes on with a typed command.
LEMMA CommandTyped ==
    ASSUME TypeInv, NEW m \in Managers, NEW c \in Command, Known(c),
           command' = [command EXCEPT ![m] = c]
    PROVE  /\ command' \in [Managers -> Command]
           /\ \A n \in Managers : Known(command'[n])
  BY DEF TypeInv, TypeOK

\* An idle manager is typed.
LEMMA IdleTyped == Idle \in Command /\ Known(Idle)
  BY DEF Idle, Command, Known, PCs, NoPort

\* What a new step of a command changes of its record, spelled out.
LEMMA StepTyped ==
    ASSUME TypeInv, NEW m \in Managers, NEW pc \in PCs, Goto(m, pc),
           Known([command[m] EXCEPT !.pc = pc])
    PROVE  /\ command' \in [Managers -> Command]
           /\ \A n \in Managers : Known(command'[n])
  <1> DEFINE c == [command[m] EXCEPT !.pc = pc]
  <1>1. c \in Command
    BY DEF TypeInv, TypeOK, Command
  <1>2. command' = [command EXCEPT ![m] = c]
    BY DEF Goto
  <1>. QED  BY <1>1, <1>2, CommandTyped

\* Signals keep the processes typed.
LEMMA SignalTyped ==
    ASSUME TypeOK, NEW pid \in Pids, Signal(pid)
    PROVE  process' \in [Pids -> Process]
  BY DEF TypeOK, Signal, Process, Is, NoPort

\* What is written to the registry are records.
LEMMA UpdatedTyped ==
    ASSUME TypeInv, NEW m \in Managers, At(m, "write")
    PROVE  Updated(m) \subseteq Record
  <1>1. /\ command[m] \in Command /\ Known(command[m])
        /\ command[m].rows \subseteq Record
    BY DEF TypeInv, TypeOK, Command
  <1>2. NewRecord(m) \in Record
    BY <1>1 DEF At, Known, NewRecord, Record
  <1>3. \A r \in Record : [r EXCEPT !.status = "stopped"] \in Record
    BY DEF Record
  <1>. QED  BY <1>1, <1>2, <1>3 DEF Updated

\* Types hold in the initial state.
LEMMA TypeInit == Init => TypeInv
  BY IdleTyped, ServerAssumption
     DEF Init, TypeInv, TypeOK, Process, NoProcess, NoPort, Record

\* Each action keeps the types.
LEMMA TypeStep == TypeInv /\ [Next]_vars => TypeInv'
  <1> SUFFICES ASSUME TypeInv, [Next]_vars PROVE TypeInv'
    OBVIOUS
  <1> USE ServerAssumption
  <1>typed. /\ TypeOK
            /\ \A n \in Managers : command[n] \in Command /\ Known(command[n])
    BY DEF TypeInv, TypeOK
  <1>idle. ASSUME NEW m \in Managers, EndCommand(m)
           PROVE  /\ command' \in [Managers -> Command]
                  /\ \A n \in Managers : Known(command'[n])
    BY <1>idle, IdleTyped, CommandTyped DEF EndCommand
  <1>1. ASSUME NEW m \in Managers, NEW op \in {"start", "stop", "restart"},
               NEW id \in ServerIds, NEW path \in {"ascii", "other"},
               NEW port \in Ports \cup {NoPort},
               op = "start" => port \in Ports, Issue(m, op, id, path, port)
        PROVE  TypeInv'
    <2> DEFINE c == [Idle EXCEPT !.pc = IF op = "start" THEN "find" ELSE "look up",
                                 !.op = op, !.id = id, !.path = path, !.port = port]
    <2>1. c \in Command /\ Known(c)
      BY <1>1 DEF Idle, Command, Known, PCs
    <2>2. command' = [command EXCEPT ![m] = c]
      BY <1>1 DEF Issue
    <2>3. command' \in [Managers -> Command] /\ \A n \in Managers : Known(command'[n])
      BY <2>1, <2>2, CommandTyped
    <2>. QED  BY <1>1, <1>typed, <2>3 DEF Issue, TypeInv, TypeOK
  <1>2. ASSUME NEW m \in Managers, FindPort(m)
        PROVE  TypeInv'
    <2>1. command' \in [Managers -> Command] /\ \A n \in Managers : Known(command'[n])
      <3>1. CASE EndCommand(m)
        BY <3>1, <1>idle
      <3>2. ASSUME NEW p \in Candidates(command[m].port),
                   command' = [command EXCEPT ![m].port = p, ![m].pc = "spawn"]
            PROVE  command' \in [Managers -> Command] /\ \A n \in Managers : Known(command'[n])
        <4> DEFINE c == [command[m] EXCEPT !.port = p, !.pc = "spawn"]
        <4>0. command[m].port \in Ports
          BY <1>2, <1>typed DEF FindPort, At, Known
        <4>1. p \in Ports
          BY <4>0 DEF Candidates, Ports
        <4>2. c \in Command /\ Known(c)
          <5>1. /\ command[m] \in Command /\ Known(command[m])
                /\ command[m].pc = "find"
            BY <1>2, <1>typed DEF FindPort, At
          <5>2. c \in Command
            BY <5>1, <4>1 DEF Command, PCs
          <5>3. Known(c)
            BY <5>1, <4>1 DEF Known, Command
          <5>. QED  BY <5>2, <5>3
        <4>3. command' = [command EXCEPT ![m] = c]
          BY <3>2, <1>typed DEF TypeOK, Command
        <4>. QED  BY <4>2, <4>3, CommandTyped
      <3>. QED  BY <1>2, <3>1, <3>2 DEF FindPort
    <2>. QED  BY <1>2, <1>typed, <2>1 DEF FindPort, TypeInv, TypeOK
  <1>3. ASSUME NEW m \in Managers, Spawn(m)
        PROVE  TypeInv'
    <2> PICK pid \in FreePids :
          /\ process' = [process EXCEPT ![pid] = [kind |-> "starting",
                                                  port |-> command[m].port]]
          /\ command' = [command EXCEPT ![m].pid = pid, ![m].pc = "wait"]
      BY <1>3 DEF Spawn
    <2> DEFINE c == [command[m] EXCEPT !.pid = pid, !.pc = "wait"]
    <2>1. pid \in Pids
      BY DEF FreePids
    <2>2. c \in Command /\ Known(c) /\ command[m].port \in Ports
      BY <1>3, <1>typed, <2>1, ZenonT(60) DEF Spawn, At, Known, Command, PCs
    <2>3. command' = [command EXCEPT ![m] = c]
      BY <1>typed DEF TypeOK, Command
    <2>4. command' \in [Managers -> Command] /\ \A n \in Managers : Known(command'[n])
      BY <2>2, <2>3, CommandTyped
    <2>5. process' \in [Pids -> Process]
      BY <1>typed, <2>1, <2>2 DEF TypeOK, Process
    <2>6. abandoned' \subseteq Pids
      BY <1>3, <1>typed DEF Spawn, TypeOK
    <2>. QED  BY <1>3, <1>typed, <2>4, <2>5, <2>6 DEF Spawn, TypeInv, TypeOK
  <1>4. ASSUME NEW m \in Managers, Reachable(m)
        PROVE  TypeInv'
    <2>1. Known([command[m] EXCEPT !.pc = "load"]) /\ "load" \in PCs
      BY <1>4, <1>typed DEF Reachable, At, Known, Command, PCs
    <2>2. command' \in [Managers -> Command] /\ \A n \in Managers : Known(command'[n])
      BY <1>4, <2>1, StepTyped DEF Reachable
    <2>. QED  BY <1>4, <1>typed, <2>2 DEF Reachable, TypeInv, TypeOK
  <1>5. ASSUME NEW m \in Managers, Unreachable(m)
        PROVE  TypeInv'
    <2>1. command[m].pid \in Pids
      BY <1>5, <1>typed DEF Unreachable, At, Known
    <2>2. process' \in [Pids -> Process]
      BY <1>5, <1>typed, <2>1, SignalTyped DEF Unreachable
    <2>. QED  BY <1>5, <1>typed, <1>idle, <2>2 DEF Unreachable, TypeInv, TypeOK
  <1>raises. ASSUME NEW m \in Managers, WaitRaises(m)
             PROVE  TypeInv'
    <2>1. command[m].pid \in Pids
      BY <1>raises, <1>typed DEF WaitRaises, At, Known
    <2>2. abandoned' \subseteq Pids
      BY <1>raises, <1>typed, <2>1 DEF WaitRaises, TypeOK
    <2>. QED  BY <1>raises, <1>typed, <1>idle, <2>2 DEF WaitRaises, TypeInv, TypeOK
  <1>6. ASSUME NEW m \in Managers, LoadToRecord(m)
        PROVE  TypeInv'
    <2>1. CASE readable
      <3> DEFINE c == [command[m] EXCEPT !.rows = registry, !.pc = "truncate"]
      <3>1. c \in Command /\ Known(c)
        BY <1>6, <1>typed, ZenonT(60) DEF LoadToRecord, At, Known, Command, PCs, TypeOK
      <3>2. command' = [command EXCEPT ![m] = c]
        BY <1>6, <1>typed, <2>1 DEF LoadToRecord, TypeOK, Command
      <3>3. command' \in [Managers -> Command] /\ \A n \in Managers : Known(command'[n])
        BY <3>1, <3>2, CommandTyped
      <3>4. orderly' \in BOOLEAN
        BY <1>6, <1>typed, <2>1 DEF LoadToRecord, TypeOK
      <3>. QED  BY <1>6, <1>typed, <3>3, <3>4 DEF LoadToRecord, TypeInv, TypeOK
    <2>2. CASE ~readable
      BY <1>6, <1>typed, <1>idle, <2>2 DEF LoadToRecord, TypeInv, TypeOK
    <2>. QED  BY <2>1, <2>2
  <1>7. ASSUME NEW m \in Managers, LookUp(m)
        PROVE  TypeInv'
    <2>1. CASE readable /\ RecordOf(registry, command[m].id) # {}
      <3> PICK r \in RecordOf(registry, command[m].id) :
            /\ command' = [command EXCEPT ![m].rows = registry, ![m].pid = r.pid,
                                          ![m].port = r.port, ![m].pc = "kill"]
            /\ orderly' = (orderly /\ ~Overlap(m))
        BY <1>7, <2>1 DEF LookUp
      <3> DEFINE c == [command[m] EXCEPT !.rows = registry, !.pid = r.pid,
                                         !.port = r.port, !.pc = "kill"]
      <3>1. r \in Record
        BY <1>typed DEF RecordOf, TypeOK
      <3>2. c \in Command /\ Known(c)
        BY <1>7, <1>typed, <3>1, ZenonT(60) DEF LookUp, At, Known, Command, PCs, TypeOK, Record
      <3>3. command' = [command EXCEPT ![m] = c]
        BY <1>typed DEF TypeOK, Command
      <3>4. command' \in [Managers -> Command] /\ \A n \in Managers : Known(command'[n])
        BY <3>2, <3>3, CommandTyped
      <3>5. orderly' \in BOOLEAN
        BY <1>typed DEF TypeOK
      <3>. QED  BY <1>7, <1>typed, <3>4, <3>5 DEF LookUp, TypeInv, TypeOK
    <2>2. CASE ~(readable /\ RecordOf(registry, command[m].id) # {})
      BY <1>7, <1>typed, <1>idle, <2>2 DEF LookUp, TypeInv, TypeOK
    <2>. QED  BY <2>1, <2>2
  <1>8. ASSUME NEW m \in Managers, Kill(m)
        PROVE  TypeInv'
    <2>1. command[m].pid \in Pids
      BY <1>8, <1>typed DEF Kill, At, Known
    <2>2. process' \in [Pids -> Process]
      <3>1. CASE Signal(command[m].pid)
        BY <1>typed, <2>1, <3>1, SignalTyped
      <3>2. CASE process' = [process EXCEPT ![command[m].pid].kind = "ending"]
        BY <1>typed, <2>1, <3>2 DEF TypeOK, Process
      <3>. QED  BY <1>8, <3>1, <3>2 DEF Kill
    <2>3. Known([command[m] EXCEPT !.pc = "truncate"]) /\ "truncate" \in PCs
      BY <1>8, <1>typed, ZenonT(60) DEF Kill, At, Known, Command, PCs
    <2>4. command' \in [Managers -> Command] /\ \A n \in Managers : Known(command'[n])
      BY <1>8, <2>3, StepTyped DEF Kill
    <2>. QED  BY <1>8, <1>typed, <2>2, <2>4 DEF Kill, TypeInv, TypeOK
  <1>9. ASSUME NEW m \in Managers, Truncate(m)
        PROVE  TypeInv'
    <2>1. Known([command[m] EXCEPT !.pc = "write"]) /\ "write" \in PCs
      BY <1>9, <1>typed DEF Truncate, At, Known, Command, PCs
    <2>2. command' \in [Managers -> Command] /\ \A n \in Managers : Known(command'[n])
      BY <1>9, <2>1, StepTyped DEF Truncate
    <2>. QED  BY <1>9, <1>typed, <2>2 DEF Truncate, TypeInv, TypeOK
  <1>10. ASSUME NEW m \in Managers, Write(m)
         PROVE  TypeInv'
    <2>1. registry' \subseteq Record
      BY <1>10, UpdatedTyped DEF Write
    <2>2. known' \subseteq ServerIds
      BY <1>10, <1>typed, <2>1 DEF Write, TypeOK, Record
    <2>3. command' \in [Managers -> Command] /\ \A n \in Managers : Known(command'[n])
      <3>1. CASE command[m].op = "restart"
        <4> DEFINE c == [command[m] EXCEPT !.pc = "find", !.op = "start",
                                           !.pid = NoPid, !.rows = {}]
        <4>1. c \in Command /\ Known(c)
          <5>1. c \in Command
            BY <1>10, <1>typed DEF Write, At, Command, PCs
          <5>2. Known(c)
            <6>1. /\ c.pc = "find" /\ c.op = "start" /\ c.pid = NoPid
                  /\ c.id = command[m].id /\ c.port = command[m].port
              BY <1>10, <1>typed DEF Write, At, TypeOK, Command
            <6>2. command[m].id \in ServerIds /\ command[m].port \in Ports
              BY <1>10, <1>typed DEF Write, At, Known
            <6>. QED  BY <6>1, <6>2 DEF Known
          <5>. QED  BY <5>1, <5>2
        <4>2. command' = [command EXCEPT ![m] = c]
          BY <1>10, <1>typed, <3>1 DEF Write, TypeOK, Command
        <4>. QED  BY <4>1, <4>2, CommandTyped
      <3>2. CASE command[m].op # "restart"
        BY <1>10, <1>idle, <3>2 DEF Write
      <3>. QED  BY <3>1, <3>2
    <2>. QED  BY <1>10, <1>typed, <2>1, <2>2, <2>3 DEF Write, TypeInv, TypeOK
  <1>11. ASSUME NEW m \in Managers, Crash(m) \/ WriteFails(m)
         PROVE  TypeInv'
    <2>1. command' \in [Managers -> Command] /\ \A n \in Managers : Known(command'[n])
      BY <1>11, <1>idle DEF Crash, WriteFails
    <2>2. faults' \in 0..MaxFaults
      BY <1>11, <1>typed DEF Crash, WriteFails, Fault, TypeOK
    <2>3. readable' \in BOOLEAN /\ orderly' \in BOOLEAN
      BY <1>11, <1>typed DEF Crash, WriteFails, Fault, TypeOK
    <2>. QED
      BY <1>11, <1>typed, <2>1, <2>2, <2>3 DEF Crash, WriteFails, TypeInv, TypeOK
  <1>12. ASSUME NEW pid \in Pids, Bind(pid) \/ Exit(pid) \/ StartForeign(pid)
         PROVE  TypeInv'
    <2>1. process' \in [Pids -> Process]
      BY <1>12, <1>typed DEF Bind, Exit, StartForeign, TypeOK, Process, NoProcess, NoPort
    <2>. QED
      BY <1>12, <1>typed, <2>1 DEF Bind, Exit, StartForeign, TypeInv, TypeOK
  <1>13. CASE UNCHANGED vars
    BY <1>13, <1>typed DEF vars, TypeInv, TypeOK
  <1>. QED
    BY <1>1, <1>2, <1>3, <1>4, <1>5, <1>raises, <1>6, <1>7, <1>8, <1>9, <1>10, <1>11,
       <1>12, <1>13
       DEF Next, IssueStart, IssueStop, IssueRestart

\* The registry holds records, every command knows what it needs, and no port
\* is beyond the last one.
THEOREM TypeCorrect == Spec => []TypeOK
  <1>1. TypeInv => TypeOK
    BY DEF TypeInv
  <1>. QED  BY <1>1, TypeInit, TypeStep, PTL DEF Spec

-----------------------------------------------------------------------------
(***************************************************************************)
(* Unique ids.                                                             *)
(***************************************************************************)
\* The fields of the rows a stop writes.
LEMMA StoppedFields ==
    ASSUME NEW r \in Record
    PROVE  LET stopped == [r EXCEPT !.status = "stopped"]
           IN  /\ stopped.id = r.id /\ stopped.pid = r.pid
               /\ stopped.port = r.port /\ stopped.status = "stopped"
  BY DEF Record

\* What a start writes: the row of the new server and the rows of other ids.
LEMMA UpdatedStart ==
    ASSUME TypeInv, NEW m \in Managers, At(m, "write"), command[m].op = "start",
           NEW r
    PROVE  r \in Updated(m) <=>
             \/ r = NewRecord(m)
             \/ r \in command[m].rows /\ r.id # command[m].id
  BY DEF Updated, RecordOf

\* What a stop writes: the same rows, but for the status of the one it stopped.
LEMMA UpdatedStop ==
    ASSUME TypeInv, NEW m \in Managers, At(m, "write"), command[m].op # "start",
           NEW r
    PROVE  r \in Updated(m) <=>
             \E q \in command[m].rows :
                \/ q.id # command[m].id /\ r = q
                \/ q.id = command[m].id /\ r = [q EXCEPT !.status = "stopped"]
  BY DEF Updated

\* The update of rows with unique ids has unique ids.
LEMMA UpdatedUnique ==
    ASSUME TypeInv, NEW m \in Managers, At(m, "write"), Unique(command[m].rows)
    PROVE  Unique(Updated(m))
  <1>typed. command[m].rows \subseteq Record
    BY DEF TypeInv, TypeOK, Command
  <1>1. CASE command[m].op = "start"
    <2>1. NewRecord(m).id = command[m].id
      BY DEF NewRecord
    <2>. QED  BY <1>1, <2>1, UpdatedStart DEF Unique
  <1>2. CASE command[m].op # "start"
    <2>1. SUFFICES ASSUME NEW r \in Updated(m), NEW s \in Updated(m), r.id = s.id
                   PROVE  r = s
      BY DEF Unique
    <2>2. PICK a \in command[m].rows :
            \/ a.id # command[m].id /\ r = a
            \/ a.id = command[m].id /\ r = [a EXCEPT !.status = "stopped"]
      BY <1>2, UpdatedStop
    <2>3. PICK b \in command[m].rows :
            \/ b.id # command[m].id /\ s = b
            \/ b.id = command[m].id /\ s = [b EXCEPT !.status = "stopped"]
      BY <1>2, UpdatedStop
    <2>4. r.id = a.id /\ s.id = b.id
      BY <1>typed, <2>2, <2>3, StoppedFields
    <2>5. a = b
      BY <2>1, <2>4 DEF Unique
    <2>. QED  BY <2>2, <2>3, <2>5
  <1>. QED  BY <1>1, <1>2

\* The rows a command holds are those it held, or those of the registry, or
\* none; the registry is left alone, emptied or replaced by an update.
LEMMA RowsStep ==
    ASSUME TypeInv, [Next]_vars
    PROVE  /\ \A n \in Managers : command'[n].rows \in {command[n].rows, registry, {}}
           /\ \/ registry' \in {registry, {}}
              \/ \E m \in Managers : At(m, "write") /\ registry' = Updated(m)
  <1>typed. command \in [Managers -> Command]
    BY DEF TypeInv, TypeOK
  <1>1. ASSUME NEW m \in Managers, NEW op, NEW id, NEW path, NEW port,
               Issue(m, op, id, path, port)
        PROVE  /\ \A n \in Managers : command'[n].rows \in {command[n].rows, {}}
               /\ registry' = registry
    BY <1>1, <1>typed DEF Issue, Idle, Command
  <1>2. ASSUME NEW m \in Managers, EndCommand(m)
        PROVE  \A n \in Managers : command'[n].rows \in {command[n].rows, {}}
    BY <1>2, <1>typed DEF EndCommand, Idle, Command
  <1>3. ASSUME NEW m \in Managers, NEW pc, Goto(m, pc)
        PROVE  \A n \in Managers : command'[n].rows = command[n].rows
    BY <1>3, <1>typed DEF Goto, Command
  <1>4. ASSUME NEW m \in Managers, FindPort(m) \/ Spawn(m)
        PROVE  /\ \A n \in Managers : command'[n].rows \in {command[n].rows, {}}
               /\ registry' = registry
    <2>1. CASE EndCommand(m)
      BY <1>2, <1>4, <2>1 DEF FindPort, Spawn
    <2>2. ASSUME NEW p,
                 command' = [command EXCEPT ![m].port = p, ![m].pc = "spawn"]
          PROVE  \A n \in Managers : command'[n].rows = command[n].rows
      BY <1>typed, <2>2 DEF Command
    <2>3. ASSUME NEW pid,
                 command' = [command EXCEPT ![m].pid = pid, ![m].pc = "wait"]
          PROVE  \A n \in Managers : command'[n].rows = command[n].rows
      BY <1>typed, <2>3 DEF Command
    <2>4. registry' = registry
      BY <1>4 DEF FindPort, Spawn
    <2>5. CASE FindPort(m)
      BY <2>1, <2>2, <2>4, <2>5 DEF FindPort
    <2>6. CASE Spawn(m)
      BY <2>3, <2>4, <2>6 DEF Spawn
    <2>. QED  BY <1>4, <2>5, <2>6
  <1>5. ASSUME NEW m \in Managers, Reachable(m) \/ Kill(m) \/ Truncate(m)
        PROVE  /\ \A n \in Managers : command'[n].rows = command[n].rows
               /\ registry' \in {registry, {}}
    BY <1>3, <1>5 DEF Reachable, Kill, Truncate
  <1>6. ASSUME NEW m \in Managers, Unreachable(m) \/ WaitRaises(m) \/ Crash(m) \/ WriteFails(m)
        PROVE  /\ \A n \in Managers : command'[n].rows \in {command[n].rows, {}}
               /\ registry' = registry
    BY <1>2, <1>6 DEF Unreachable, WaitRaises, Crash, WriteFails
  <1>7. ASSUME NEW m \in Managers, LoadToRecord(m) \/ LookUp(m)
        PROVE  /\ \A n \in Managers : command'[n].rows \in {command[n].rows, registry, {}}
               /\ registry' = registry
    <2>1. CASE EndCommand(m)
      BY <1>2, <1>7, <2>1 DEF LoadToRecord, LookUp
    <2>2. ASSUME NEW r,
                 command' = [command EXCEPT ![m].rows = registry, ![m].pid = r.pid,
                                            ![m].port = r.port, ![m].pc = "kill"]
          PROVE  \A n \in Managers : command'[n].rows \in {command[n].rows, registry}
      BY <1>typed, <2>2 DEF Command
    <2>3. ASSUME command' = [command EXCEPT ![m].rows = registry, ![m].pc = "truncate"]
          PROVE  \A n \in Managers : command'[n].rows \in {command[n].rows, registry}
      BY <1>typed, <2>3 DEF Command
    <2>4. registry' = registry
      BY <1>7 DEF LoadToRecord, LookUp
    <2>5. CASE LoadToRecord(m)
      BY <2>1, <2>3, <2>4, <2>5 DEF LoadToRecord
    <2>6. CASE LookUp(m)
      BY <2>1, <2>2, <2>4, <2>6 DEF LookUp
    <2>. QED  BY <1>7, <2>5, <2>6
  <1>8. ASSUME NEW m \in Managers, Write(m)
        PROVE  /\ \A n \in Managers : command'[n].rows \in {command[n].rows, {}}
               /\ At(m, "write") /\ registry' = Updated(m)
    <2>1. CASE EndCommand(m)
      BY <1>2, <1>8, <2>1 DEF Write
    <2>2. CASE ~EndCommand(m)
      BY <1>8, <1>typed, <2>2 DEF Write, Command
    <2>. QED  BY <2>1, <2>2
  <1>9. ASSUME NEW pid \in Pids, Bind(pid) \/ Exit(pid) \/ StartForeign(pid)
        PROVE  UNCHANGED <<command, registry>>
    BY <1>9 DEF Bind, Exit, StartForeign
  <1>10. CASE UNCHANGED vars
    BY <1>10 DEF vars
  <1>. QED
    BY <1>1, <1>4, <1>5, <1>6, <1>7, <1>8, <1>9, <1>10
       DEF Next, IssueStart, IssueStop, IssueRestart

\* No rows have unique ids.
LEMMA IdsInit == Init => IdsInv
  BY DEF Init, IdsInv, Unique, Idle

\* Each step keeps the ids unique, in the registry and in what a command holds.
LEMMA IdsStep == TypeInv /\ IdsInv /\ [Next]_vars => IdsInv'
  <1>1. SUFFICES ASSUME TypeInv, IdsInv, [Next]_vars PROVE IdsInv'
    OBVIOUS
  <1>2. Unique({})
    BY DEF Unique
  <1>3. \A n \in Managers : Unique(command'[n].rows)
    BY <1>1, <1>2, RowsStep DEF IdsInv
  <1>4. Unique(registry')
    BY <1>1, <1>2, RowsStep, UpdatedUnique DEF IdsInv
  <1>. QED  BY <1>3, <1>4 DEF IdsInv, Unique

\* No id ever has two rows, whatever overlaps, crashes or fails.
THEOREM IdsStayUnique == Spec => []IdsAreUnique
  <1>1. IdsInv => IdsAreUnique
    BY DEF IdsInv, IdsAreUnique, Unique
  <1>. QED  BY <1>1, IdsInit, IdsStep, TypeInit, TypeStep, PTL DEF Spec

-----------------------------------------------------------------------------
(***************************************************************************)
(* The registry and the servers that run.  What orderly stands for: one    *)
(* command at a time is between loading and writing, what it loaded is     *)
(* still what the registry says, and the row it is about to change is not  *)
(* that of a server that runs (unless the pid of that row is that of a     *)
(* server another command is starting, or has abandoned).                  *)
(***************************************************************************)
Busy(m) == command[m].pc \in {"kill", "truncate", "write"}

Starting(pid) == \E m \in Managers : StartedBy(m, pid)

Excused(pid) == pid \in abandoned \/ Starting(pid)

Alone == \A m, n \in Managers : Busy(m) /\ Busy(n) => m = n

Snapshot ==
    \A m \in Managers :
        /\ command[m].pc \in {"kill", "truncate"} => command[m].rows = registry
        /\ command[m].pc = "write" => registry \subseteq command[m].rows

\* A stop knows the pid of the row it looked up.
Target ==
    \A m \in Managers : command[m].pc = "kill" =>
        \A r \in command[m].rows : r.id = command[m].id => r.pid = command[m].pid

ReplacedIsDead ==
    \A m \in Managers : command[m].pc \in {"truncate", "write"} =>
        \A r \in command[m].rows :
            r.id = command[m].id /\ r.status = "running" /\ Live(r.pid) => Excused(r.pid)

AllRecorded == \A pid \in Pids : Live(pid) => Recorded(pid) \/ Excused(pid)

AllKept == \A id \in known : \E r \in Rows : r.id = id

RegistryOK == Alone /\ Snapshot /\ Target /\ ReplacedIsDead /\ AllRecorded /\ AllKept

RegistryInv == TypeInv /\ IdsInv /\ (orderly => RegistryOK)

\* What is in Rows.
LEMMA InRows ==
    ASSUME NEW r
    PROVE  r \in Rows <=> \/ r \in registry
                          \/ \E m \in Managers : command[m].pc = "write" /\ r \in command[m].rows
  BY DEF Rows, At

\* As long as nobody is at the write, the rows are those of the registry.
LEMMA RowsAtRest ==
    ASSUME \A m \in Managers : command[m].pc # "write"
    PROVE  Rows = registry
  BY InRows

\* The only command at the write holds all of the rows.
LEMMA RowsAtWrite ==
    ASSUME Alone, Snapshot, NEW m \in Managers, command[m].pc = "write"
    PROVE  Rows = command[m].rows
  BY InRows DEF Alone, Snapshot, Busy

\* A step that leaves the registry and the commands between loading and
\* writing alone, and by which nobody runs who was not started.
LEMMA QuietStep ==
    ASSUME RegistryOK, UNCHANGED <<registry, known>>,
           \A n \in Managers : Busy(n) \/ Busy(n)' => command'[n] = command[n],
           \A pid \in Pids : Live(pid)' => Excused(pid)' \/ (Live(pid) /\ ~Excused(pid)),
           \A n \in Managers : command[n].rows \subseteq Record
    PROVE  RegistryOK'
  <1>1. Alone' /\ Snapshot' /\ Target'
    BY DEF RegistryOK, Alone, Snapshot, Target, Busy
  <1>2. ReplacedIsDead'
    <2>1. SUFFICES ASSUME NEW m \in Managers, command'[m].pc \in {"truncate", "write"},
                          NEW r \in command'[m].rows, r.id = command'[m].id,
                          r.status = "running", Live(r.pid)'
                   PROVE  Excused(r.pid)'
      BY DEF ReplacedIsDead
    <2>2. command'[m] = command[m]
      BY <2>1 DEF Busy
    <2>3. r.pid \in Pids
      BY <2>1, <2>2 DEF Record
    <2>4. Live(r.pid) => Excused(r.pid)
      BY <2>1, <2>2 DEF RegistryOK, ReplacedIsDead
    <2>. QED  BY <2>1, <2>3, <2>4
  <1>3. Rows' = Rows
    BY DEF Rows, At, Busy
  <1>4. AllRecorded' /\ AllKept'
    BY <1>3 DEF RegistryOK, AllRecorded, AllKept, Recorded
  <1>. QED  BY <1>1, <1>2, <1>4 DEF RegistryOK

\* Whose start is under way changes only with the command that moves.
LEMMA StartingStep ==
    ASSUME TypeInv, NEW m \in Managers, NEW c, command' = [command EXCEPT ![m] = c],
           NEW pid, c.op = "start" /\ c.pid = pid <=> StartedBy(m, pid)
    PROVE  Starting(pid)' <=> Starting(pid)
  BY DEF TypeInv, TypeOK, Starting, StartedBy

\* Nobody who was asked to end runs.
LEMMA SignalEnds ==
    ASSUME TypeInv, NEW pid \in Pids, Signal(pid)
    PROVE  /\ ~Live(pid)'
           /\ \A other \in Pids : Live(other)' => Live(other)
  <1>1. process \in [Pids -> Process]
    BY DEF TypeInv, TypeOK
  <1>2. CASE process[pid].kind = "starting"
    BY <1>1, <1>2 DEF Signal, Live, Is, Process
  <1>3. CASE process[pid].kind = "serving"
    BY <1>1, <1>3 DEF Signal, Live, Is, Process
  <1>4. CASE process[pid].kind \notin {"starting", "serving"}
    BY <1>1, <1>4 DEF Signal, Live, Is, Process
  <1>. QED  BY <1>2, <1>3, <1>4

\* Loading the registry starts the only change that is under way.
LEMMA LoadStep ==
    ASSUME TypeInv, IdsInv, RegistryOK, NEW m \in Managers,
           LoadToRecord(m) \/ LookUp(m), orderly'
    PROVE  RegistryOK'
  <1>typed. /\ command \in [Managers -> Command] /\ Known(command[m])
            /\ registry \subseteq Record /\ NoPid \notin Pids
            /\ \A n \in Managers : command[n].rows \subseteq Record
    BY ServerAssumption DEF TypeInv, TypeOK, Command
  <1>same. UNCHANGED <<registry, process, known, abandoned>>
    BY DEF LoadToRecord, LookUp
  <1>1. CASE EndCommand(m)
    <2>1. command[m].pc = "look up" /\ command[m].op # "start"
      BY <1>1, <1>typed DEF LoadToRecord, LookUp, At, Known, EndCommand, Idle, Command
    <2>2. \A pid \in Pids : Starting(pid)' <=> Starting(pid)
      <3>1. /\ \A n \in Managers \ {m} : command'[n] = command[n]
            /\ command'[m].op = "none"
        BY <1>1, <1>typed DEF EndCommand, Idle
      <3>. QED  BY <2>1, <3>1 DEF Starting, StartedBy
    <2>3. \A n \in Managers : Busy(n) \/ Busy(n)' => command'[n] = command[n]
      BY <1>1, <1>typed, <2>1 DEF EndCommand, Idle, Busy
    <2>. QED
      BY <1>typed, <1>same, <2>2, <2>3, QuietStep DEF RegistryOK, AllRecorded, Excused, Live, Is
  <1>2. CASE ~EndCommand(m)
    <2>1. /\ ~Busy(m) /\ ~Overlap(m)
          /\ \A n \in Managers \ {m} : ~Busy(n)
      BY <1>2 DEF LoadToRecord, LookUp, Overlap, Busy, At
    <2>2. \A n \in Managers : ~Busy(n) /\ command[n].pc # "write"
      BY <2>1 DEF Busy
    <2>3. /\ \A n \in Managers \ {m} : command'[n] = command[n]
          /\ command'[m].pc \in {"kill", "truncate"}
          /\ command'[m].rows = registry
          /\ command'[m].op = command[m].op /\ command'[m].id = command[m].id
      <3>1. CASE LoadToRecord(m)
        BY <1>2, <1>typed, <3>1, ZenonT(60) DEF LoadToRecord, Command
      <3>2. CASE LookUp(m)
        <4> PICK r \in RecordOf(registry, command[m].id) :
              command' = [command EXCEPT ![m].rows = registry, ![m].pid = r.pid,
                                         ![m].port = r.port, ![m].pc = "kill"]
          BY <1>2, <3>2 DEF LookUp
        <4>. QED  BY <1>typed DEF Command
      <3>. QED  BY <3>1, <3>2
    <2>4. Alone' /\ Snapshot'
      BY <1>same, <2>2, <2>3 DEF Alone, Snapshot, Busy
    <2>5. Target'
      <3>1. CASE LoadToRecord(m)
        <4>1. command'[m].pc = "truncate"
          BY <1>2, <1>typed, <3>1 DEF LoadToRecord, Command
        <4>. QED  BY <2>2, <2>3, <4>1 DEF Target, Busy
      <3>2. CASE LookUp(m)
        <4> PICK r \in RecordOf(registry, command[m].id) :
              command' = [command EXCEPT ![m].rows = registry, ![m].pid = r.pid,
                                         ![m].port = r.port, ![m].pc = "kill"]
          BY <1>2, <3>2 DEF LookUp
        <4>1. command'[m].pid = r.pid
          BY <1>typed DEF Command
        <4>2. \A q \in registry : q.id = command[m].id => q = r
          BY DEF IdsInv, Unique, RecordOf
        <4>3. \A q \in command'[m].rows : q.id = command'[m].id => q.pid = command'[m].pid
          BY <2>3, <4>1, <4>2
        <4>4. \A n \in Managers \ {m} : command'[n].pc # "kill"
          BY <2>2, <2>3 DEF Busy
        <4>. QED  BY <4>3, <4>4 DEF Target
      <3>. QED  BY <3>1, <3>2
    <2>6. ReplacedIsDead'
      <3>1. CASE LoadToRecord(m)
        <4>1. ~ReplacesLive(m)
          BY <1>2, <3>1 DEF LoadToRecord
        <4>. QED
          BY <1>same, <2>2, <2>3, <4>1 DEF ReplacedIsDead, ReplacesLive, RecordOf, Busy, Live, Is
      <3>2. CASE LookUp(m)
        <4>1. command'[m].pc = "kill"
          BY <1>2, <1>typed, <3>2, ZenonT(60) DEF LookUp, Command
        <4>. QED  BY <2>2, <2>3, <4>1 DEF ReplacedIsDead, Busy
      <3>. QED  BY <3>1, <3>2
    <2>7. Rows = registry /\ Rows' = registry
      <3>1. Rows = registry
        BY <2>2, RowsAtRest
      <3>2. \A n \in Managers : command'[n].pc # "write"
        BY <2>2, <2>3
      <3>3. Rows' = registry'
        BY <3>2 DEF Rows, At
      <3>. QED  BY <1>same, <3>1, <3>3
    <2>8. \A pid \in Pids : Starting(pid) => Starting(pid)'
      <3>1. CASE LoadToRecord(m)
        <4>1. command'[m].pid = command[m].pid
          BY <1>2, <1>typed, <3>1 DEF LoadToRecord, Command
        <4>. QED  BY <2>3, <4>1 DEF Starting, StartedBy
      <3>2. CASE LookUp(m)
        BY <1>typed, <2>3, <3>2 DEF LookUp, At, Known, Starting, StartedBy
      <3>. QED  BY <3>1, <3>2
    <2>9. AllRecorded' /\ AllKept'
      BY <1>same, <2>7, <2>8
         DEF RegistryOK, AllRecorded, AllKept, Recorded, Excused, Live, Is
    <2>. QED  BY <2>4, <2>5, <2>6, <2>9 DEF RegistryOK
  <1>. QED  BY <1>1, <1>2

\* The server that is stopped has been asked to end before its row changes.
LEMMA KillStep ==
    ASSUME TypeInv, RegistryOK, NEW m \in Managers, Kill(m)
    PROVE  RegistryOK'
  <1>typed. /\ command \in [Managers -> Command] /\ Known(command[m])
            /\ process \in [Pids -> Process] /\ command[m].pid \in Pids
    BY DEF TypeInv, TypeOK, Kill, At, Known
  <1>1. command[m].pc = "kill" /\ \A n \in Managers \ {m} : ~Busy(n)
    BY DEF Kill, At, RegistryOK, Alone, Busy
  <1>2. /\ \A n \in Managers \ {m} : command'[n] = command[n]
        /\ command'[m].pc = "truncate"
        /\ command'[m].rows = command[m].rows /\ command'[m].id = command[m].id
        /\ command'[m].op = command[m].op /\ command'[m].pid = command[m].pid
        /\ UNCHANGED <<registry, known, abandoned>>
    BY <1>typed DEF Kill, Goto, Command
  <1> PICK pid \in Pids : pid = command[m].pid
    BY <1>typed
  <1>3. /\ ~Live(pid)'
        /\ \A other \in Pids : Live(other)' => Live(other)
    <2>1. CASE Signal(command[m].pid)
      <3>1. Signal(pid)
        BY <2>1
      <3>. QED  BY <3>1, SignalEnds
    <2>2. CASE process' = [process EXCEPT ![command[m].pid].kind = "ending"]
      BY <1>typed, <2>2 DEF Live, Is, Process
    <2>. QED  BY <2>1, <2>2 DEF Kill
  <1>4. \A other : Excused(other)' <=> Excused(other)
    BY <1>2 DEF Excused, Starting, StartedBy
  <1>5. Alone' /\ Snapshot' /\ Target'
    BY <1>1, <1>2 DEF RegistryOK, Alone, Snapshot, Target, Busy
  <1>6. ReplacedIsDead'
    BY <1>1, <1>2, <1>3 DEF RegistryOK, Target, ReplacedIsDead, Busy
  <1>7. Rows' = Rows
    BY <1>1, <1>2 DEF Rows, At, Busy
  <1>8. AllRecorded' /\ AllKept'
    BY <1>2, <1>3, <1>4, <1>7 DEF RegistryOK, AllRecorded, AllKept, Recorded
  <1>. QED  BY <1>5, <1>6, <1>8 DEF RegistryOK

\* While the file is empty the command at the write holds the rows.
LEMMA TruncateStep ==
    ASSUME TypeInv, RegistryOK, NEW m \in Managers, Truncate(m)
    PROVE  RegistryOK'
  <1>typed. command \in [Managers -> Command]
    BY DEF TypeInv, TypeOK
  <1>1. command[m].pc = "truncate" /\ \A n \in Managers \ {m} : ~Busy(n)
    BY DEF Truncate, At, RegistryOK, Alone, Busy
  <1>2. /\ \A n \in Managers \ {m} : command'[n] = command[n]
        /\ command'[m].pc = "write"
        /\ command'[m].rows = command[m].rows /\ command'[m].id = command[m].id
        /\ command'[m].op = command[m].op /\ command'[m].pid = command[m].pid
        /\ registry' = {} /\ UNCHANGED <<process, known, abandoned>>
    BY <1>typed DEF Truncate, Goto, Command
  <1>3. \A pid : Excused(pid)' <=> Excused(pid)
    BY <1>2 DEF Excused, Starting, StartedBy
  <1>4. Alone' /\ Snapshot' /\ Target'
    BY <1>1, <1>2 DEF RegistryOK, Alone, Snapshot, Target, Busy
  <1>5. ReplacedIsDead'
    BY <1>1, <1>2, <1>3 DEF RegistryOK, ReplacedIsDead, Busy, Live, Is
  <1>6. Rows' = Rows
    <2>1. Rows = registry
      BY <1>1, RowsAtRest DEF Busy
    <2>2. Rows' = command'[m].rows
      BY <1>1, <1>2 DEF Rows, At, Busy
    <2>. QED  BY <1>1, <1>2, <2>1, <2>2 DEF RegistryOK, Snapshot
  <1>7. AllRecorded' /\ AllKept'
    BY <1>2, <1>3, <1>6 DEF RegistryOK, AllRecorded, AllKept, Recorded, Live, Is
  <1>. QED  BY <1>4, <1>5, <1>7 DEF RegistryOK

\* The write: every server that ran and was recorded still is, and so is the
\* one that this command started.
LEMMA WriteStep ==
    ASSUME TypeInv, RegistryOK, NEW m \in Managers, Write(m)
    PROVE  RegistryOK'
  <1>typed. /\ command \in [Managers -> Command] /\ Known(command[m])
            /\ command[m].rows \subseteq Record /\ NoPid \notin Pids
    BY ServerAssumption DEF TypeInv, TypeOK, Command
  <1>1. At(m, "write") /\ command[m].pc = "write"
        /\ \A n \in Managers \ {m} : ~Busy(n)
    BY DEF Write, At, RegistryOK, Alone, Busy
  <1>2. /\ \A n \in Managers \ {m} : command'[n] = command[n]
        /\ command'[m].pc \in {"idle", "find"}
        /\ \A pid \in Pids : ~(command'[m].op = "start" /\ command'[m].pid = pid)
        /\ registry' = Updated(m) /\ UNCHANGED <<process, abandoned>>
        /\ known' = known \cup {r.id : r \in registry'}
    <2>1. /\ registry' = Updated(m) /\ UNCHANGED <<process, abandoned>>
          /\ known' = known \cup {r.id : r \in registry'}
      BY DEF Write
    <2>2. CASE EndCommand(m)
      BY <1>typed, <2>1, <2>2 DEF EndCommand, Idle
    <2>3. CASE command' = [command EXCEPT ![m] = [@ EXCEPT !.pc = "find", !.op = "start",
                                                          !.pid = NoPid, !.rows = {}]]
      <3>1. command'[m].pc = "find" /\ command'[m].pid = NoPid
        BY <1>typed, <2>3 DEF Command
      <3>. QED  BY <1>typed, <2>1, <2>3, <3>1
    <2>. QED  BY <2>2, <2>3 DEF Write
  <1>3. \A n \in Managers : ~Busy(n)'
    BY <1>1, <1>2 DEF Busy
  <1>4. Alone' /\ Snapshot' /\ Target' /\ ReplacedIsDead'
    BY <1>3 DEF Alone, Snapshot, Target, ReplacedIsDead, Busy
  <1>5. Rows = command[m].rows /\ Rows' = Updated(m)
    <2>1. Rows = command[m].rows
      BY <1>1, RowsAtWrite DEF RegistryOK
    <2>2. Rows' = registry'
      BY <1>3 DEF Rows, At, Busy
    <2>. QED  BY <1>2, <2>1, <2>2
  <1>6. AllRecorded'
    <2>1. SUFFICES ASSUME NEW pid \in Pids, Live(pid), ~Excused(pid)'
                   PROVE  \E r \in Updated(m) : r.pid = pid /\ r.status = "running"
      BY <1>2, <1>5 DEF AllRecorded, Recorded, Live, Is
    <2>2. CASE StartedBy(m, pid)
      <3>1. NewRecord(m) \in Updated(m)
        BY <1>1, <2>2, UpdatedStart DEF StartedBy
      <3>. QED  BY <2>2, <3>1 DEF NewRecord, StartedBy
    <2>3. CASE ~StartedBy(m, pid)
      <3>1. ~Excused(pid)
        BY <1>2, <2>1, <2>3 DEF Excused, Starting, StartedBy
      <3>2. PICK r \in command[m].rows : r.pid = pid /\ r.status = "running"
        BY <1>5, <2>1, <3>1 DEF RegistryOK, AllRecorded, Recorded
      <3>3. r.id # command[m].id
        BY <1>1, <2>1, <3>1, <3>2 DEF RegistryOK, ReplacedIsDead
      <3>4. r \in Updated(m)
        BY <1>1, <3>3, UpdatedStart, UpdatedStop
      <3>. QED  BY <3>2, <3>4
    <2>. QED  BY <2>2, <2>3
  <1>7. AllKept'
    <2>1. SUFFICES ASSUME NEW id \in known PROVE \E r \in Updated(m) : r.id = id
      BY <1>2, <1>5 DEF AllKept
    <2>2. PICK q \in command[m].rows : q.id = id
      BY <1>5 DEF RegistryOK, AllKept
    <2>3. CASE q.id # command[m].id
      <3>1. q \in Updated(m)
        BY <1>1, <2>3, UpdatedStart, UpdatedStop
      <3>. QED  BY <2>2, <3>1
    <2>4. CASE q.id = command[m].id /\ command[m].op = "start"
      <3>1. NewRecord(m) \in Updated(m)
        BY <1>1, <2>4, UpdatedStart
      <3>. QED  BY <2>2, <2>4, <3>1 DEF NewRecord
    <2>5. CASE q.id = command[m].id /\ command[m].op # "start"
      <3>1. [q EXCEPT !.status = "stopped"] \in Updated(m)
        BY <1>1, <2>5, UpdatedStop
      <3>2. [q EXCEPT !.status = "stopped"].id = q.id
        BY <1>typed DEF Record
      <3>. QED  BY <2>2, <3>1, <3>2
    <2>. QED  BY <2>3, <2>4, <2>5
  <1>. QED  BY <1>4, <1>6, <1>7 DEF RegistryOK

\* Commands before they load, the end of a start that failed, and processes.
LEMMA OtherSteps ==
    ASSUME TypeInv, RegistryOK, NEW m \in Managers,
           \/ \E op \in {"start", "stop", "restart"}, id \in ServerIds,
                 path \in {"ascii", "other"}, port \in Ports \cup {NoPort} :
                 Issue(m, op, id, path, port)
           \/ FindPort(m) \/ Spawn(m) \/ Reachable(m) \/ Unreachable(m)
           \/ WaitRaises(m)
    PROVE  RegistryOK'
  <1>typed. /\ command \in [Managers -> Command] /\ Known(command[m])
            /\ process \in [Pids -> Process] /\ NoPid \notin Pids
            /\ \A n \in Managers : command[n].rows \subseteq Record
    BY ServerAssumption DEF TypeInv, TypeOK, Command
  <1>1. UNCHANGED <<registry, known>>
    BY DEF Issue, FindPort, Spawn, Reachable, Unreachable, WaitRaises
  <1>2. /\ \A n \in Managers \ {m} : command'[n] = command[n]
        /\ command[m].pc \in {"idle", "find", "spawn", "wait"}
        /\ command'[m].pc \in {"idle", "find", "look up", "spawn", "wait", "load"}
        /\ \A pid \in Pids : Live(pid)' =>
             \/ command'[m].op = "start" /\ command'[m].pid = pid
             \/ Live(pid) /\ (StartedBy(m, pid) => pid \in abandoned')
        /\ \A pid \in abandoned : Live(pid)' =>
             pid \in abandoned' \/ (command'[m].op = "start" /\ command'[m].pid = pid)
    <2>1. ASSUME NEW op \in {"start", "stop", "restart"}, NEW id, NEW path, NEW port,
                 Issue(m, op, id, path, port)
          PROVE  <1>2!:
      BY <1>typed, <2>1 DEF Issue, At, Known, Idle, StartedBy, Live, Is
    <2>2. ASSUME FindPort(m)
          PROVE  <1>2!:
      <3>1. /\ command[m].pc = "find" /\ UNCHANGED <<process, abandoned>>
            /\ \A pid \in Pids : ~StartedBy(m, pid)
        BY <1>typed, <2>2 DEF FindPort, At, Known, StartedBy
      <3>2. CASE EndCommand(m)
        BY <1>typed, <3>1, <3>2 DEF EndCommand, Idle, Live, Is
      <3>3. ASSUME NEW p, command' = [command EXCEPT ![m].port = p, ![m].pc = "spawn"]
            PROVE  <1>2!:
        BY <1>typed, <3>1, <3>3 DEF Command, Live, Is
      <3>. QED  BY <2>2, <3>2, <3>3 DEF FindPort
    <2>3. ASSUME Spawn(m)
          PROVE  <1>2!:
      <3> PICK p \in FreePids :
            /\ process' = [process EXCEPT ![p] = [kind |-> "starting",
                                                  port |-> command[m].port]]
            /\ command' = [command EXCEPT ![m].pid = p, ![m].pc = "wait"]
            /\ abandoned' = abandoned \ {p}
        BY <2>3 DEF Spawn
      <3>1. /\ command[m].pc = "spawn" /\ command[m].op = "start"
            /\ \A pid \in Pids : ~StartedBy(m, pid)
        BY <1>typed, <2>3 DEF Spawn, At, Known, StartedBy
      <3>2. /\ command'[m].pc = "wait" /\ command'[m].op = "start" /\ command'[m].pid = p
            /\ \A n \in Managers \ {m} : command'[n] = command[n]
        BY <1>typed, <3>1 DEF Command
      <3>3. \A pid \in Pids \ {p} : Live(pid)' <=> Live(pid)
        BY <1>typed DEF Live, Is
      <3>. QED  BY <3>1, <3>2, <3>3
    <2>4. ASSUME Reachable(m)
          PROVE  <1>2!:
      <3>1. /\ command[m].pc = "wait" /\ command[m].op = "start" /\ UNCHANGED <<process, abandoned>>
            /\ command'[m].pc = "load" /\ command'[m].op = command[m].op
            /\ command'[m].pid = command[m].pid
            /\ \A n \in Managers \ {m} : command'[n] = command[n]
        BY <1>typed, <2>4 DEF Reachable, At, Known, Goto, Command
      <3>. QED  BY <3>1 DEF StartedBy, Live, Is
    <2>5. ASSUME Unreachable(m)
          PROVE  <1>2!:
      <3> PICK p \in Pids : p = command[m].pid
        BY <1>typed, <2>5 DEF Unreachable, At, Known
      <3>1. ~Live(p)' /\ \A pid \in Pids : Live(pid)' => Live(pid)
        <4>1. Signal(p)
          BY <2>5 DEF Unreachable
        <4>. QED  BY <4>1, SignalEnds
      <3>2. /\ command[m].pc = "wait" /\ command'[m].pc = "idle"
            /\ \A n \in Managers \ {m} : command'[n] = command[n]
            /\ UNCHANGED abandoned
        BY <1>typed, <2>5 DEF Unreachable, At, EndCommand, Idle
      <3>. QED  BY <3>1, <3>2 DEF StartedBy
    <2>6. ASSUME WaitRaises(m)
          PROVE  <1>2!:
      <3>1. /\ command[m].pc = "wait" /\ command'[m].pc = "idle" /\ UNCHANGED process
            /\ \A n \in Managers \ {m} : command'[n] = command[n]
            /\ abandoned' = abandoned \cup {command[m].pid}
        BY <1>typed, <2>6 DEF WaitRaises, At, EndCommand, Idle
      <3>. QED  BY <3>1 DEF StartedBy, Live, Is
    <2>. QED  BY <2>1, <2>2, <2>3, <2>4, <2>5, <2>6
  <1>3. \A n \in Managers : Busy(n) \/ Busy(n)' => command'[n] = command[n]
    BY <1>2 DEF Busy
  <1>4. \A pid \in Pids : Live(pid)' => Excused(pid)' \/ (Live(pid) /\ ~Excused(pid))
    BY <1>2 DEF Excused, Starting, StartedBy
  <1>. QED  BY <1>typed, <1>1, <1>3, <1>4, QuietStep

\* Each step keeps the registry in line with the processes.
LEMMA RegistryStep == RegistryInv /\ TypeInv' /\ IdsInv' /\ [Next]_vars => RegistryInv'
  <1>1. SUFFICES ASSUME RegistryInv, [Next]_vars, orderly' PROVE RegistryOK'
    BY DEF RegistryInv
  <1>2. CASE UNCHANGED vars
    <2>1. UNCHANGED <<registry, process, command, known, orderly, abandoned>>
      BY <1>2 DEF vars
    <2>2. RegistryOK
      BY <1>1, <2>1 DEF RegistryInv
    <2>. QED
      BY <2>1, <2>2 DEF RegistryOK, Alone, Snapshot, Target, ReplacedIsDead, AllRecorded,
           AllKept, Recorded, Rows, Excused, Starting, StartedBy, Live, Is, Busy, At
  <1>3. ASSUME NEW pid \in Pids, Bind(pid) \/ Exit(pid) \/ StartForeign(pid)
        PROVE  RegistryOK'
    <2>1. UNCHANGED <<registry, command, known, orderly, abandoned>>
      BY <1>3 DEF Bind, Exit, StartForeign
    <2>2. \A other \in Pids : Live(other)' => Live(other)
      <3>1. process \in [Pids -> Process]
        BY <1>1 DEF RegistryInv, TypeInv, TypeOK
      <3>2. CASE Bind(pid)
        BY <3>1, <3>2 DEF Bind, NoProcess, Live, Is, Process
      <3>3. CASE Exit(pid)
        BY <3>1, <3>3 DEF Exit, NoProcess, Live, Is
      <3>4. CASE StartForeign(pid)
        BY <3>1, <3>4 DEF StartForeign, Live, Is
      <3>. QED  BY <1>3, <3>2, <3>3, <3>4
    <2>3. \A other : Excused(other)' <=> Excused(other)
      BY <2>1 DEF Excused, Starting, StartedBy
    <2>4. RegistryOK
      BY <1>1, <2>1 DEF RegistryInv
    <2>5. Rows' = Rows
      BY <2>1 DEF Rows, At
    <2>6. ReplacedIsDead'
      <3>1. \A n \in Managers : command[n].rows \subseteq Record
        BY <1>1 DEF RegistryInv, TypeInv, TypeOK, Command
      <3>2. \A r \in Record : r.pid \in Pids
        BY DEF Record
      <3>. QED
        BY <2>1, <2>2, <2>3, <2>4, <3>1, <3>2 DEF RegistryOK, ReplacedIsDead
    <2>. QED
      BY <2>1, <2>2, <2>3, <2>4, <2>5, <2>6
         DEF RegistryOK, Alone, Snapshot, Target, AllRecorded, AllKept, Recorded, Busy
  <1>4. ASSUME NEW m \in Managers, Crash(m) \/ WriteFails(m)
        PROVE  FALSE
    BY <1>1, <1>4 DEF Crash, WriteFails, Fault
  <1>5. ASSUME NEW m \in Managers,
               \/ IssueStart(m) \/ IssueStop(m) \/ IssueRestart(m)
               \/ FindPort(m) \/ Spawn(m) \/ Reachable(m) \/ Unreachable(m)
               \/ WaitRaises(m)
        PROVE  RegistryOK'
    <2>1. \/ \E op \in {"start", "stop", "restart"}, id \in ServerIds,
               path \in {"ascii", "other"}, port \in Ports \cup {NoPort} :
               Issue(m, op, id, path, port)
          \/ FindPort(m) \/ Spawn(m) \/ Reachable(m) \/ Unreachable(m) \/ WaitRaises(m)
      BY <1>5, ServerAssumption DEF IssueStart, IssueStop, IssueRestart
    <2>2. UNCHANGED orderly
      BY <2>1 DEF Issue, FindPort, Spawn, Reachable, Unreachable, WaitRaises
    <2>. QED  BY <1>1, <2>1, <2>2, OtherSteps DEF RegistryInv
  <1>6. ASSUME NEW m \in Managers, LoadToRecord(m) \/ LookUp(m)
        PROVE  RegistryOK'
    <2>1. orderly
      BY <1>1, <1>6 DEF RegistryInv, TypeInv, TypeOK, LoadToRecord, LookUp
    <2>. QED  BY <1>1, <1>6, <2>1, LoadStep DEF RegistryInv
  <1>7. ASSUME NEW m \in Managers, Kill(m) \/ Truncate(m) \/ Write(m)
        PROVE  RegistryOK'
    <2>1. orderly
      BY <1>1, <1>7 DEF Kill, Truncate, Write
    <2>. QED  BY <1>1, <1>7, <2>1, KillStep, TruncateStep, WriteStep DEF RegistryInv
  <1>. QED  BY <1>1, <1>2, <1>3, <1>4, <1>5, <1>6, <1>7 DEF Next

\* The registry and its consequences hold in every reachable state.
LEMMA RegistryHolds == Spec => []RegistryInv
  <1>1. Init => RegistryInv
    <2>1. SUFFICES ASSUME Init PROVE RegistryOK
      BY TypeInit, IdsInit DEF RegistryInv
    <2>2. \A m \in Managers : command[m].pc = "idle"
      BY <2>1 DEF Init, Idle
    <2>3. Alone /\ Snapshot /\ Target /\ ReplacedIsDead
      BY <2>2 DEF Alone, Snapshot, Target, ReplacedIsDead, Busy
    <2>4. AllRecorded /\ AllKept
      BY <2>1 DEF Init, NoProcess, AllRecorded, AllKept, Live, Is
    <2>. QED  BY <2>3, <2>4 DEF RegistryOK
  <1>2. RegistryInv => TypeInv /\ IdsInv
    BY DEF RegistryInv
  <1>. QED  BY <1>1, <1>2, TypeStep, IdsStep, RegistryStep, PTL DEF Spec

\* A server that runs and was not asked to end is recorded or being started,
\* or its start ended by an error in the wait, for any number of commands that
\* do not overlap at the registry.
THEOREM ServersStayRecorded == Spec => []LiveServersRecorded
  <1>1. RegistryInv => LiveServersRecorded
    BY DEF RegistryInv, RegistryOK, AllRecorded, LiveServersRecorded, Excused, Starting
  <1>. QED  BY <1>1, RegistryHolds, PTL

\* An id that was recorded once keeps its row, under the same condition.
THEOREM RowsStayRecorded == Spec => []RecordsKept
  <1>1. RegistryInv => RecordsKept
    BY DEF RegistryInv, RegistryOK, AllKept, RecordsKept
  <1>. QED  BY <1>1, RegistryHolds, PTL
=============================================================================
