------------------------------ MODULE CdrawJSON ------------------------------
(***************************************************************************)
(* The parameter files (CdrawJSON.h and .cc) and init_by_json of the       *)
(* classes that have one: CdrawUart, CdrawNet, COSD_OpenCL.  A file is     *)
(* created by the first object that finds none and read by the later ones. *)
(* Its path does not depend on the object's id, so that all objects of a   *)
(* class share it.  A save is known by who printed it: an object prints at *)
(* most once, as it finds the file ever after.                             *)
(*                                                                         *)
(* pc: "built" after the constructor, "create" and "read" after the test,  *)
(* "print" between fopen and fclose.                                       *)
(***************************************************************************)
EXTENDS Process

CONSTANTS FONT_ARRAY_SIZE,  \* 30, scaled down
          MaxCrashes        \* bound: how often the process dies

Absent == "absent"
Empty == "empty"      \* as fopen(..., "wb+") leaves it
Garbage == "garbage"  \* a member that was never given a value
Zeros == "zeros"
Nothing == "nothing"  \* what get_by_json makes of a file that does not parse
Stranger == "stranger"  \* who printed what no object has printed

\* The parameters a constructor was given are called by the object's name.
ASSUME JsonAssumption == /\ Objects \cap {Absent, Empty, Garbage, Zeros, Nothing, Stranger} = {}
                         /\ FONT_ARRAY_SIZE \in Nat \ {0} /\ MaxCrashes \in Nat

VARIABLES file,       \* file[c]: the file of class c: NoFileYet, EmptyFile or a save
          json_,      \* json_[o]: the member uart_json_, net_json_ or osd_json_
          param,      \* param[o]: where the parameters in use come from, slot by slot
          turn,       \* slots that COSD_OpenCL has still to load
          disturbed,  \* classes of which an object tested for the file while another was
                      \* about to create it, or of which a save was cut by a crash
          crashes

\* What a file holds and a slot is loaded with: the contents and who printed them.
Save(o, v) == [by |-> o, of |-> v]
NoFileYet == Save(Stranger, Absent)
EmptyFile == Save(Stranger, Empty)
Given(o)  == Save(Stranger, o)      \* the constructor's parameters, never in a file
Printed(f) == f.by # Stranger

json == <<file, json_, param, turn, disturbed, crashes>>

JsonInit == /\ file = [c \in {"uart", "net", "net1", "osd"} |-> NoFileYet]
            /\ json_ = [o \in Objects |-> Garbage]
            /\ param = [o \in Objects |-> {}]
            /\ turn = [o \in Objects |-> 0]
            /\ disturbed = {}
            /\ crashes = 0

MyFile(o) == file[class[o]]
Uses(o, v) == \E p \in param[o] : p.of = v
Creating(c) == \E u \in Objects : class[u] = c /\ pc[u] \in {"create", "print"}

\* Who tests while another creates may miss the save or read half of it.
Tests(o) == disturbed' = IF Creating(class[o]) THEN disturbed \cup {class[o]} ELSE disturbed

\* Mutant of TestFile: the test is the wrong way round.
TestFileInverted(o) ==
    /\ pc[o] = "built"
    /\ Goto(o, IF MyFile(o) = NoFileYet THEN "read" ELSE "create")
    /\ turn' = [turn EXCEPT ![o] = IF class[o] = "osd" THEN FONT_ARRAY_SIZE ELSE 1]
    /\ Tests(o)
    /\ UNCHANGED <<class, files, fd, faults, blame, file, json_, param, crashes>>

\* init_by_json: file_exists; COSD_OpenCL clears its structure to print it.
TestFile(o) ==
    /\ pc[o] = "built"
    /\ Goto(o, IF MyFile(o) = NoFileYet THEN "create" ELSE "read")
    /\ turn' = [turn EXCEPT ![o] = IF class[o] = "osd" THEN FONT_ARRAY_SIZE ELSE 1]
    /\ json_' = IF class[o] = "osd" /\ MyFile(o) = NoFileYet THEN [json_ EXCEPT ![o] = Zeros]
                                                         ELSE json_
    /\ Tests(o)
    /\ UNCHANGED <<class, files, fd, faults, blame, file, param, crashes>>

\* An object that does not use a file keeps its constructor's parameters.
SkipFile(o) == /\ pc[o] = "built" /\ class[o] # "osd"
               /\ Goto(o, "ready")
               /\ UNCHANGED <<class, files, fd, faults, blame, json>>

\* save_to_json_file up to fopen, which empties the file, ...
CreateFile(o) ==
    /\ pc[o] = "create"
    /\ file' = [file EXCEPT ![class[o]] = EmptyFile]
    /\ Goto(o, "print")
    /\ UNCHANGED <<class, files, fd, faults, blame, json_, param, turn, disturbed, crashes>>

\* ... and on to fclose, which writes it.
PrintFile(o) ==
    /\ pc[o] = "print"
    /\ file' = [file EXCEPT ![class[o]] = Save(o, json_[o])]
    /\ Goto(o, "ready")
    /\ UNCHANGED <<class, files, fd, faults, blame, json_, param, turn, disturbed, crashes>>

\* Mutant of LastSlot: the loop runs once too often.
LastSlotLate(o) == turn[o] = 0

LastSlot(o) == turn[o] = 1

\* get_by_json, once, or once for each slot; every slot adds to param.
ReadFile(o) ==
    /\ pc[o] = "read"
    /\ LET got == IF Printed(MyFile(o)) THEN MyFile(o) ELSE Save(Stranger, Nothing)
       IN  /\ json_' = [json_ EXCEPT ![o] = got.of]
           /\ param' = [param EXCEPT ![o] =
                           IF class[o] = "osd" /\ turn[o] < FONT_ARRAY_SIZE
                           THEN @ \cup {got} ELSE {got}]
    /\ turn' = [turn EXCEPT ![o] = @ - 1]
    /\ IF LastSlot(o) THEN Goto(o, "ready") ELSE UNCHANGED pc
    /\ UNCHANGED <<class, files, fd, faults, blame, file, disturbed, crashes>>

InitByJson(o) == TestFile(o) \/ SkipFile(o) \/ CreateFile(o) \/ PrintFile(o) \/ ReadFile(o)

-----------------------------------------------------------------------------
\* A process that dies takes its objects with it; of the files that were being
\* saved an empty one stays.
JsonCrash ==
    /\ crashes < MaxCrashes
    /\ crashes' = crashes + 1
    /\ disturbed' = disturbed \cup {class[o] : o \in {u \in Objects : pc[u] = "print"}}
    /\ json_' = [o \in Objects |-> Garbage]
    /\ param' = [o \in Objects |-> {}]
    /\ turn' = [o \in Objects |-> 0]
    /\ UNCHANGED file

\* COSD_OpenCL's constructor clears its slots and calls init_by_json itself;
\* the object keeps no file open.
COSD_OpenCL(o) == /\ class[o] = "osd" /\ pc[o] = "none"
                  /\ Goto(o, "built")
                  /\ param' = [param EXCEPT ![o] = {}]
                  /\ json_' = [json_ EXCEPT ![o] = Garbage]
                  /\ UNCHANGED <<class, files, fd, faults, blame, file, turn, disturbed, crashes>>

DestroyOsd(o) == /\ class[o] = "osd" /\ pc[o] = "ready"
                 /\ Goto(o, "none")
                 /\ UNCHANGED <<class, files, fd, faults, blame, json>>

JsonStep(o) == InitByJson(o) \/ COSD_OpenCL(o) \/ DestroyOsd(o)

-----------------------------------------------------------------------------
\* Objects of a class that use its file all use one save, the one the file still
\* has, whole and slot by slot, whoever printed it and however often the program
\* died since: no slot has the zeros that init_by_json makes of a file without
\* content, none comes from another save than its neighbours, and only a class
\* that prints a member before it has a value (CdrawUart, and CdrawNet when bind
\* fails) uses one that has none.  The others use their constructor's parameters.
\* Claimed for every class whose file no two objects created or created and
\* looked for at once, and of which no save was cut between fopen and fclose.
ReadsOneSave ==
    \A o \in Objects : class[o] \notin disturbed =>
        \A p \in param[o] :
            \/ p = Given(o)
            \/ /\ p = MyFile(o) /\ Printed(p) /\ p.of # Nothing
               /\ p.of = Garbage => class[o] \in {"uart", "net"}
=============================================================================
