---------------------------- MODULE DriverProofs ----------------------------
(***************************************************************************)
(* What the driver leaves behind, for any number of processes, any files   *)
(* and any texts: nothing of a refused program, and, for a process that    *)
(* had output.o to itself and printed no error, the program asked for.     *)
(***************************************************************************)
EXTENDS Driver, SequenceTheorems, TLAPS

Linking   == {"link", "linking", "linked", "link_failed"} \cup Orphans
Generated == {"list", "print_list", "emit", "write"} \cup Linking
Bytes     == Texts \cup {Hole}

(* The passes behind a process; once it writes, all of them.               *)
Behind(stage) ==
  CASE stage \in {"start", "read", "tokenise"} \cup Ended -> {}
    [] stage = "parse"                       -> {"tokenise"}
    [] stage = "check"                       -> {"tokenise", "parse"}
    [] stage = "generate"                    -> {"tokenise", "parse", "check"}
    [] stage \in Generated                   -> Passes

(* The variables without what relates them.                                *)
Shapes ==
  /\ pc \in [Compilers -> Stages \cup Orphans \cup Ended]
  /\ filename \in [Compilers -> Files \cup {NoText}]
  /\ output_llvm \in [Compilers -> BOOLEAN]
  /\ text \in [Compilers -> Texts \cup {NoText}]
  /\ message \in [Compilers -> BOOLEAN]
  /\ written \in [Compilers -> Nat]
  /\ image \in [Compilers -> Seq(Bytes)]
  /\ disturbed \in [Compilers -> BOOLEAN]

FileShapes ==
  /\ object \in Seq(Bytes)
  /\ executable \in {Missing} \cup Texts
  /\ listing \in [Files -> {Missing, Empty} \cup Texts]

(* What a process knows where it stands.                                   *)
Knows(c) ==
  /\ pc[c] \notin Ended => filename[c] \in Files
  /\ pc[c] \notin Ended \cup {"start", "read"} => text[c] \in Texts
  /\ written[c] <= IF text[c] = NoText THEN 0 ELSE Blocks[text[c]]
  /\ pc[c] \notin {"write"} \cup Linking => written[c] = 0

StateInv == Shapes /\ FileShapes /\ \A c \in Compilers : Knows(c)

(* A process holds nothing refused by a pass it has behind it.             *)
HoldsClean(c) ==
  /\ \A i \in 1 .. Len(image[c]) : Clean(image[c][i])
  /\ text[c] \in Texts => Refusal[text[c]] \notin Behind(pc[c])

CleanInv == RefusedLeaveNoTrace /\ \A c \in Compilers : HoldsClean(c)

----------------------------------------------------------------------------
LEMMA InitState == Init => StateInv
BY DEF Init, StateInv, Shapes, FileShapes, Knows, Bytes, Stages, Orphans, Ended, Passes

LEMMA StateIsTyped == StateInv => TypeOK
BY DEF StateInv, Shapes, FileShapes, Knows, Bytes, TypeOK

LEMMA LeaveShapes ==
  ASSUME StateInv, NEW c \in Compilers, NEW end \in Ended, Leave(c, end),
         message' \in [Compilers -> BOOLEAN]
  PROVE  Shapes' /\ \A d \in Compilers : Knows(d)'
<1>1. /\ pc' = [pc EXCEPT ![c] = end]
      /\ filename' = [filename EXCEPT ![c] = NoText]
      /\ output_llvm' = [output_llvm EXCEPT ![c] = FALSE]
      /\ text' = [text EXCEPT ![c] = NoText]
      /\ written' = [written EXCEPT ![c] = 0]
      /\ image' = [image EXCEPT ![c] = << >>]
      /\ disturbed' = [disturbed EXCEPT ![c] = FALSE]
  BY DEF Leave, Goto, Forget
<1>2. Shapes'
  BY <1>1 DEF StateInv, Shapes
<1>3. ASSUME NEW d \in Compilers PROVE Knows(d)'
  <2>1. CASE d = c
    BY <1>1, <2>1 DEF StateInv, Shapes, Knows, Ended
  <2>2. CASE d # c
    BY <1>1, <2>2 DEF StateInv, Shapes, Knows
  <2> QED BY <2>1, <2>2
<1> QED BY <1>2, <1>3

LEMMA WriteAtFile ==
  ASSUME NEW file \in Seq(Bytes), NEW offset \in Nat \ {0}, NEW block \in Bytes
  PROVE  /\ WriteAt(file, offset, block) \in Seq(Bytes)
         /\ Len(WriteAt(file, offset, block)) = IF offset > Len(file) THEN offset ELSE Len(file)
         /\ \A i \in 1 .. Len(WriteAt(file, offset, block)) :
              WriteAt(file, offset, block)[i] =
                IF i = offset THEN block ELSE IF i <= Len(file) THEN file[i] ELSE Hole
<1> DEFINE n == IF offset > Len(file) THEN offset ELSE Len(file)
           at(i) == IF i = offset THEN block ELSE IF i <= Len(file) THEN file[i] ELSE Hole
<1>1. n \in Nat
  OBVIOUS
<1>2. \A i \in 1 .. n : at(i) \in Bytes
  BY DEF Bytes
<1>3. WriteAt(file, offset, block) = [i \in 1 .. n |-> at(i)]
  BY DEF WriteAt
<1> HIDE DEF n, at
<1>4. [i \in 1 .. n |-> at(i)] \in Seq(Bytes) /\ Len([i \in 1 .. n |-> at(i)]) = n
  BY <1>1, <1>2, IsASeq
<1>5. \A i \in 1 .. n : [j \in 1 .. n |-> at(j)][i] = at(i)
  OBVIOUS
<1> QED BY <1>3, <1>4, <1>5 DEF n, at

(* The next block of an object that holds nothing else.                    *)
LEMMA WriteNext ==
  ASSUME NEW file \in Seq(Bytes), NEW block \in Bytes, \A i \in 1 .. Len(file) : file[i] = block
  PROVE  /\ Len(WriteAt(file, Len(file) + 1, block)) = Len(file) + 1
         /\ \A i \in 1 .. Len(WriteAt(file, Len(file) + 1, block)) :
              WriteAt(file, Len(file) + 1, block)[i] = block
<1> DEFINE n == Len(file) + 1
           f == WriteAt(file, n, block)
<1>1. n \in Nat \ {0} /\ n > Len(file)
  OBVIOUS
<1> HIDE DEF n
<1>2. /\ Len(f) = IF n > Len(file) THEN n ELSE Len(file)
      /\ \A i \in 1 .. Len(f) :
           f[i] = IF i = n THEN block ELSE IF i <= Len(file) THEN file[i] ELSE Hole
  BY <1>1, WriteAtFile
<1> HIDE DEF f
<1>3. Len(f) = n
  BY <1>1, <1>2
<1>4. \A i \in 1 .. Len(f) : f[i] = block
  BY <1>1, <1>2, <1>3 DEF n
<1> QED BY <1>3, <1>4 DEF n, f

(* What clang makes of an object, or leaves.                               *)
LEMMA MadeOfTexts ==
  ASSUME StateInv, NEW c \in Compilers, MakesExecutable(c) \/ MakesNone
  PROVE  executable' \in {Missing} \cup Texts
BY BlocksAssumption DEF MakesExecutable, MakesNone, StateInv, FileShapes

LEMMA StateStep == StateInv /\ [Next]_vars => StateInv'
<1> SUFFICES ASSUME StateInv, [Next]_vars PROVE StateInv'
  OBVIOUS
<1> USE DEF Shapes, FileShapes, Ended, Stages, Orphans, Linking, Passes
<1>1. ASSUME NEW c \in Compilers, Call(c) PROVE StateInv'
  <2>1. PICK call \in Calls :
          /\ filename' = [filename EXCEPT ![c] = call[1]]
          /\ output_llvm' = [output_llvm EXCEPT ![c] = call[2]]
    BY <1>1 DEF Call
  <2>2. call[1] \in Files /\ call[2] \in BOOLEAN
    BY CallsAssumption
  <2>3. Shapes' /\ FileShapes'
    BY <1>1, <2>1, <2>2 DEF StateInv, Call, Goto, files
  <2>4. ASSUME NEW d \in Compilers PROVE Knows(d)'
    BY <1>1, <2>1, <2>2 DEF StateInv, Knows, Call, Goto, files
  <2> QED BY <2>3, <2>4 DEF StateInv
<1>2. ASSUME NEW c \in Compilers, ParseArguments(c) PROVE StateInv'
  <2>1. CASE Throw(c)
    BY <1>2, <2>1, LeaveShapes DEF Throw, ParseArguments, files, StateInv
  <2>2. CASE ~Throw(c)
    BY <1>2, <2>2 DEF StateInv, Knows, ParseArguments, Goto, memory, files
  <2> QED BY <2>1, <2>2
<1>3. ASSUME NEW c \in Compilers, ReadFile(c) PROVE StateInv'
  <2>1. CASE \E end \in Ended : Leave(c, end)
    <3>1. message' \in [Compilers -> BOOLEAN]
      BY <1>3 DEF ReadFile, StateInv
    <3>2. PICK end \in Ended : Leave(c, end)
      BY <2>1
    <3>3. Shapes' /\ \A d \in Compilers : Knows(d)'
      BY <3>1, <3>2, LeaveShapes
    <3>4. FileShapes'
      BY <1>3 DEF ReadFile, files, StateInv, FileShapes
    <3> QED BY <3>3, <3>4 DEF StateInv
  <2>2. CASE ~ \E end \in Ended : Leave(c, end)
    <3>1. PICK t \in Texts : text' = [text EXCEPT ![c] = t]
      BY <1>3, <2>2 DEF ReadFile
    <3>2. /\ pc[c] = "read" /\ pc' = [pc EXCEPT ![c] = "tokenise"]
          /\ message' = [message EXCEPT ![c] = Disk[filename[c]] \in FileErrors]
          /\ UNCHANGED << filename, output_llvm, written, image, disturbed, files >>
      BY <1>3, <2>2 DEF ReadFile, Goto
    <3>3. Shapes' /\ FileShapes'
      BY <3>1, <3>2 DEF StateInv, files
    <3>4. ASSUME NEW d \in Compilers PROVE Knows(d)'
      BY <3>1, <3>2, BlocksAssumption DEF StateInv, Knows
    <3> QED BY <3>3, <3>4 DEF StateInv
  <2> QED BY <2>1, <2>2
<1>4. ASSUME NEW c \in Compilers, RunPass(c) PROVE StateInv'
  <2>1. CASE Throw(c)
    BY <1>4, <2>1, LeaveShapes DEF Throw, RunPass, files, StateInv
  <2>2. CASE ~Throw(c)
    <3>1. /\ pc[c] \in Passes
          /\ IF pc[c] # "generate" THEN Goto(c, PassAfter[pc[c]])
             ELSE Goto(c, IF output_llvm[c] THEN "list" ELSE "emit")
          /\ UNCHANGED << memory, message, disturbed, files >>
      BY <1>4, <2>2 DEF RunPass
    <3>2. PICK next \in {"parse", "check", "generate", "list", "emit"} :
            pc' = [pc EXCEPT ![c] = next]
      <4>1. CASE pc[c] = "generate"
        BY <3>1, <4>1 DEF Goto
      <4>2. CASE pc[c] # "generate"
        <5>1. PassAfter[pc[c]] \in {"parse", "check", "generate"}
          BY <3>1, <4>2 DEF PassAfter
        <5> QED BY <3>1, <4>2, <5>1 DEF Goto
      <4> QED BY <4>1, <4>2
    <3>3. Shapes' /\ FileShapes'
      BY <3>1, <3>2 DEF StateInv, memory, files
    <3>4. ASSUME NEW d \in Compilers PROVE Knows(d)'
      BY <3>1, <3>2 DEF StateInv, Knows, memory, files
    <3> QED BY <3>3, <3>4 DEF StateInv
  <2> QED BY <2>1, <2>2
<1>5. ASSUME NEW c \in Compilers, OpenListing(c) PROVE StateInv'
  <2>1. FileShapes'
    BY <1>5, NamesAssumption DEF StateInv, Knows, OpenListing
  <2> QED BY <1>5, <2>1 DEF StateInv, Knows, OpenListing, Goto
<1>6. ASSUME NEW c \in Compilers, PrintListing(c) PROVE StateInv'
  BY <1>6 DEF StateInv, Knows, PrintListing, Goto
<1>7. ASSUME NEW c \in Compilers, OpenObject(c) PROVE StateInv'
  BY <1>7 DEF StateInv, Knows, OpenObject, Goto, memory
<1>8. ASSUME NEW c \in Compilers, FailToEmit(c) PROVE StateInv'
  BY <1>8, LeaveShapes DEF FailToEmit, Throw, files, StateInv
<1>9. ASSUME NEW c \in Compilers, WriteBlock(c) PROVE StateInv'
  <2>1. CASE written[c] < Blocks[text[c]]
    <3>1. text[c] \in Texts /\ text[c] \in Bytes /\ written[c] \in Nat
      BY <1>9 DEF WriteBlock, StateInv, Knows, Bytes
    <3>2. WriteAt(object, written[c] + 1, text[c]) \in Seq(Bytes)
      <4>1. written[c] + 1 \in Nat \ {0} /\ object \in Seq(Bytes)
        BY <3>1 DEF StateInv
      <4> QED BY <3>1, <4>1, WriteAtFile
    <3>3. Shapes' /\ FileShapes'
      <4>1. /\ written' = [written EXCEPT ![c] = @ + 1]
            /\ object' = WriteAt(object, written[c] + 1, text[c])
            /\ UNCHANGED << pc, filename, output_llvm, text, message, image, disturbed,
                            executable, listing >>
        BY <1>9, <2>1 DEF WriteBlock
      <4>2. written[c] + 1 \in Nat
        BY <3>1
      <4>3. object' \in Seq(Bytes)
        BY <4>1, <3>2
      <4>4. Shapes'
        BY <4>1, <4>2 DEF StateInv
      <4>5. FileShapes'
        BY <4>1, <4>3 DEF StateInv
      <4> QED BY <4>4, <4>5
    <3>4. pc[c] = "write" /\ pc' = pc /\ filename' = filename /\ text' = text
          /\ written' = [written EXCEPT ![c] = @ + 1]
      BY <1>9, <2>1 DEF WriteBlock
    <3>5. ASSUME NEW d \in Compilers PROVE Knows(d)'
      <4>1. text[c] # NoText /\ Blocks[text[c]] \in Nat
        BY <3>1, NamesAssumption, BlocksAssumption
      <4> QED BY <2>1, <3>1, <3>4, <4>1 DEF StateInv, Knows
    <3> QED BY <3>3, <3>5 DEF StateInv
  <2>2. CASE ~(written[c] < Blocks[text[c]])
    BY <1>9, <2>2 DEF StateInv, Knows, WriteBlock, Goto
  <2> QED BY <2>1, <2>2
<1>10. ASSUME NEW c \in Compilers, ReadObject(c) PROVE StateInv'
  BY <1>10 DEF StateInv, Knows, ReadObject, Goto, files
<1>11. ASSUME NEW c \in Compilers, WriteExecutable(c) PROVE StateInv'
  <2>1. executable' \in {Missing} \cup Texts
    BY <1>11, MadeOfTexts DEF WriteExecutable
  <2>2. PICK end \in {"linked", "link_failed"} : pc' = [pc EXCEPT ![c] = end]
    BY <1>11 DEF WriteExecutable, Goto
  <2>3. /\ pc[c] = "linking" /\ UNCHANGED << memory, message, object, listing >>
        /\ disturbed' = [d \in Compilers |-> disturbed[d] \/ d \in Overwritten(c)]
    BY <1>11 DEF WriteExecutable
  <2>4. disturbed' \in [Compilers -> BOOLEAN]
    BY <2>3
  <2>5. Shapes' /\ FileShapes'
    BY <2>1, <2>2, <2>3, <2>4 DEF StateInv, memory
  <2>6. ASSUME NEW d \in Compilers PROVE Knows(d)'
    BY <2>2, <2>3 DEF StateInv, Knows, memory
  <2> QED BY <2>5, <2>6 DEF StateInv
<1>12. ASSUME NEW c \in Compilers, LinkOrphan(c) PROVE StateInv'
  <2>1. executable' \in {Missing} \cup Texts
    BY <1>12, MadeOfTexts DEF LinkOrphan
  <2>2. disturbed' = [d \in Compilers |-> d # c /\ (disturbed[d] \/ d \in Overwritten(c))]
    BY <1>12 DEF LinkOrphan
  <2>3. disturbed' \in [Compilers -> BOOLEAN]
    BY <2>2
  <2>4. /\ pc' = [pc EXCEPT ![c] = "died"]
        /\ filename' = [filename EXCEPT ![c] = NoText]
        /\ output_llvm' = [output_llvm EXCEPT ![c] = FALSE]
        /\ text' = [text EXCEPT ![c] = NoText]
        /\ written' = [written EXCEPT ![c] = 0]
        /\ image' = [image EXCEPT ![c] = << >>]
        /\ UNCHANGED << message, object, listing >>
    BY <1>12 DEF LinkOrphan, Goto, Forget
  <2>5. Shapes' /\ FileShapes'
    BY <2>1, <2>3, <2>4 DEF StateInv
  <2>6. ASSUME NEW d \in Compilers PROVE Knows(d)'
    <3>1. CASE d = c
      BY <2>4, <3>1 DEF StateInv, Knows
    <3>2. CASE d # c
      BY <2>4, <3>2 DEF StateInv, Knows
    <3> QED BY <3>1, <3>2
  <2> QED BY <2>5, <2>6 DEF StateInv
<1>15. ASSUME NEW c \in Compilers, FinishLink(c) PROVE StateInv'
  BY <1>15, LeaveShapes DEF FinishLink, Throw, files, StateInv
<1>13. ASSUME NEW c \in Compilers, Kill(c) PROVE StateInv'
  <2>1. CASE Leave(c, "died")
    BY <1>13, <2>1, LeaveShapes DEF Kill, files, StateInv
  <2>2. CASE ~Leave(c, "died")
    BY <1>13, <2>2 DEF StateInv, Knows, Kill, Goto, memory, files
  <2> QED BY <2>1, <2>2
<1>14. CASE UNCHANGED vars
  BY <1>14 DEF StateInv, Knows, vars, memory, files
<1> QED
  BY <1>1, <1>2, <1>3, <1>4, <1>5, <1>6, <1>7, <1>8, <1>9, <1>10, <1>11, <1>12, <1>13, <1>14,
     <1>15
  DEF Next, Compile

(* The types of the driver's state, and what a process has at each stage.  *)
THEOREM DriverTypeCorrect == Spec => []TypeOK
<1>1. Init => StateInv
  BY InitState
<1>2. StateInv /\ [Next]_vars => StateInv'
  BY StateStep
<1>3. StateInv => TypeOK
  BY StateIsTyped
<1> QED BY <1>1, <1>2, <1>3, PTL DEF Spec

----------------------------------------------------------------------------
LEMMA InitClean == Init => CleanInv
BY NamesAssumption DEF Init, CleanInv, HoldsClean, RefusedLeaveNoTrace, Clean

(* Leaving gives up all a process held.                                    *)
LEMMA ForgetClean ==
  ASSUME StateInv, CleanInv, NEW c \in Compilers, NEW end \in Ended, Goto(c, end), Forget(c)
  PROVE  \A d \in Compilers : HoldsClean(d)'
<1>1. /\ pc' = [pc EXCEPT ![c] = end]
      /\ text' = [text EXCEPT ![c] = NoText]
      /\ image' = [image EXCEPT ![c] = << >>]
  BY DEF Goto, Forget
<1> SUFFICES ASSUME NEW d \in Compilers PROVE HoldsClean(d)'
  OBVIOUS
<1>2. CASE d = c
  BY <1>1, <1>2, NamesAssumption DEF StateInv, Shapes, HoldsClean
<1>3. CASE d # c
  <2>1. pc'[d] = pc[d] /\ text'[d] = text[d] /\ image'[d] = image[d]
    BY <1>1, <1>3 DEF StateInv, Shapes
  <2> QED BY <2>1 DEF CleanInv, HoldsClean, Clean
<1> QED BY <1>2, <1>3

LEMMA LeaveClean ==
  ASSUME StateInv, CleanInv, NEW c \in Compilers, NEW end \in Ended, Leave(c, end)
  PROVE  \A d \in Compilers : HoldsClean(d)'
BY ForgetClean DEF Leave

(* What every pass has accepted is clean.                                  *)
LEMMA GeneratedClean ==
  ASSUME StateInv, CleanInv, NEW c \in Compilers, pc[c] \in Generated
  PROVE  Clean(text[c])
<1>1. CASE text[c] \in Texts
  <2>1. Refusal[text[c]] \notin Passes
    BY <1>1 DEF CleanInv, HoldsClean, Behind, Generated, Linking, Orphans, Ended, Passes
  <2> QED BY <1>1, <2>1, RefusalAssumption DEF Clean
<1> QED BY <1>1 DEF Clean

(* An executable is made of an object's first block.                       *)
LEMMA LinkedClean ==
  ASSUME StateInv, CleanInv, NEW c \in Compilers, NEW t \in HasMain, HoldsObject(image[c], t)
  PROVE  Clean(t)
<1>1. Blocks[t] \in Nat \ {0} /\ Len(image[c]) \in Nat
  BY BlocksAssumption DEF StateInv, Shapes
<1>2. 1 \in 1 .. Len(image[c]) /\ image[c][1] = t
  BY <1>1 DEF HoldsObject
<1> QED BY <1>2 DEF CleanInv, HoldsClean

LEMMA MadeClean ==
  ASSUME StateInv, CleanInv, NEW c \in Compilers, MakesExecutable(c) \/ MakesNone
  PROVE  Clean(executable')
<1>1. CASE MakesExecutable(c)
  BY <1>1, LinkedClean DEF MakesExecutable
<1>2. CASE MakesNone
  BY <1>2, NamesAssumption DEF MakesNone, CleanInv, RefusedLeaveNoTrace, Clean
<1> QED BY <1>1, <1>2

LEMMA CleanStep == StateInv /\ CleanInv /\ [Next]_vars => CleanInv'
<1> SUFFICES ASSUME StateInv, CleanInv, [Next]_vars PROVE CleanInv'
  OBVIOUS
<1>0. ASSUME UNCHANGED files PROVE RefusedLeaveNoTrace'
  BY <1>0 DEF files, CleanInv, RefusedLeaveNoTrace, Clean
<1>a. ASSUME NEW c \in Compilers, UNCHANGED image, Behind(pc'[c]) \subseteq Behind(pc[c]),
             \A d \in Compilers \ {c} : pc'[d] = pc[d] /\ text'[d] = text[d],
             text'[c] = text[c] \/ Behind(pc'[c]) = {}
      PROVE  \A d \in Compilers : HoldsClean(d)'
  <2> SUFFICES ASSUME NEW d \in Compilers PROVE HoldsClean(d)'
    OBVIOUS
  <2>1. CASE d = c
    BY <1>a, <2>1 DEF CleanInv, HoldsClean, Clean
  <2>2. CASE d # c
    BY <1>a, <2>2 DEF CleanInv, HoldsClean, Clean
  <2> QED BY <2>1, <2>2
<1> USE DEF Shapes, FileShapes, Ended, Stages, Orphans, Linking, Passes
<1>1. ASSUME NEW c \in Compilers, Call(c) PROVE CleanInv'
  <2>1. pc' = [pc EXCEPT ![c] = "start"] /\ UNCHANGED << text, image, files >>
    BY <1>1 DEF Call, Goto
  <2>2. Behind(pc'[c]) = {} /\ \A d \in Compilers \ {c} : pc'[d] = pc[d] /\ text'[d] = text[d]
    BY <2>1 DEF StateInv, Behind, Generated
  <2> QED BY <1>0, <1>a, <2>1, <2>2 DEF CleanInv
<1>2. ASSUME NEW c \in Compilers, ParseArguments(c) PROVE CleanInv'
  <2>1. CASE Throw(c)
    BY <1>0, <1>2, <2>1, LeaveClean DEF Throw, ParseArguments, CleanInv
  <2>2. CASE ~Throw(c)
    <3>1. pc' = [pc EXCEPT ![c] = "read"] /\ UNCHANGED << text, image, files >>
      BY <1>2, <2>2 DEF ParseArguments, Goto, memory
    <3>2. Behind(pc'[c]) = {} /\ \A d \in Compilers \ {c} : pc'[d] = pc[d] /\ text'[d] = text[d]
      BY <3>1 DEF StateInv, Behind, Generated
    <3> QED BY <1>0, <1>a, <3>1, <3>2 DEF CleanInv
  <2> QED BY <2>1, <2>2
<1>3. ASSUME NEW c \in Compilers, ReadFile(c) PROVE CleanInv'
  <2>1. CASE \E end \in Ended : Leave(c, end)
    BY <1>0, <1>3, <2>1, LeaveClean DEF ReadFile, CleanInv
  <2>2. CASE ~ \E end \in Ended : Leave(c, end)
    <3>1. PICK t \in Texts : text' = [text EXCEPT ![c] = t]
      BY <1>3, <2>2 DEF ReadFile
    <3>2. pc' = [pc EXCEPT ![c] = "tokenise"] /\ UNCHANGED << image, files >>
      BY <1>3, <2>2 DEF ReadFile, Goto
    <3>3. Behind(pc'[c]) = {} /\ \A d \in Compilers \ {c} : pc'[d] = pc[d] /\ text'[d] = text[d]
      BY <3>1, <3>2 DEF StateInv, Behind, Generated
    <3> QED BY <1>0, <1>a, <3>2, <3>3 DEF CleanInv
  <2> QED BY <2>1, <2>2
<1>4. ASSUME NEW c \in Compilers, RunPass(c) PROVE CleanInv'
  <2>1. CASE Throw(c)
    BY <1>0, <1>4, <2>1, LeaveClean DEF Throw, RunPass, CleanInv
  <2>2. CASE ~Throw(c)
    <3>1. /\ pc[c] \in Passes /\ Refusal[text[c]] # pc[c]
          /\ IF pc[c] # "generate" THEN Goto(c, PassAfter[pc[c]])
             ELSE Goto(c, IF output_llvm[c] THEN "list" ELSE "emit")
          /\ UNCHANGED << memory, message, disturbed, files >>
      BY <1>4, <2>2 DEF RunPass
    <3>2. pc'[c] \in Stages /\ Behind(pc'[c]) = Behind(pc[c]) \cup {pc[c]}
      BY <3>1 DEF Goto, PassAfter, Behind, Generated, StateInv
    <3>3. ASSUME NEW d \in Compilers PROVE HoldsClean(d)'
      <4>1. text' = text /\ image' = image
        BY <3>1 DEF memory
      <4>2. CASE d = c
        BY <3>1, <3>2, <4>1, <4>2 DEF CleanInv, HoldsClean, Clean
      <4>3. CASE d # c
        <5>1. pc'[d] = pc[d]
          BY <3>1, <4>3 DEF Goto, StateInv
        <5> QED BY <4>1, <5>1 DEF CleanInv, HoldsClean, Clean
      <4> QED BY <4>2, <4>3
    <3> QED BY <1>0, <3>1, <3>3 DEF CleanInv
  <2> QED BY <2>1, <2>2
<1>5. ASSUME NEW c \in Compilers, OpenListing(c) PROVE CleanInv'
  <2>1. RefusedLeaveNoTrace'
    <3>1. listing' \in {listing, [listing EXCEPT ![filename[c]] = Empty]}
          /\ UNCHANGED << object, executable >>
      BY <1>5 DEF OpenListing
    <3>2. Clean(Empty)
      BY NamesAssumption DEF Clean
    <3> QED BY <3>1, <3>2 DEF StateInv, CleanInv, RefusedLeaveNoTrace, Clean
  <2> QED BY <1>5, <1>a, <2>1 DEF OpenListing, Goto, StateInv, Behind, Generated, CleanInv
<1>6. ASSUME NEW c \in Compilers, PrintListing(c) PROVE CleanInv'
  <2>1. Clean(text[c])
    BY <1>6, GeneratedClean DEF PrintListing, Generated
  <2>2. RefusedLeaveNoTrace'
    BY <1>6, <2>1 DEF PrintListing, StateInv, CleanInv, RefusedLeaveNoTrace, Clean
  <2> QED BY <1>6, <1>a, <2>2 DEF PrintListing, Goto, StateInv, Behind, Generated, CleanInv
<1>7. ASSUME NEW c \in Compilers, OpenObject(c) PROVE CleanInv'
  <2>1. RefusedLeaveNoTrace'
    BY <1>7 DEF OpenObject, StateInv, CleanInv, RefusedLeaveNoTrace, Clean
  <2> QED BY <1>7, <1>a, <2>1 DEF OpenObject, memory, Goto, StateInv, Behind, Generated, CleanInv
<1>8. ASSUME NEW c \in Compilers, FailToEmit(c) PROVE CleanInv'
  BY <1>0, <1>8, LeaveClean DEF FailToEmit, Throw, CleanInv
<1>9. ASSUME NEW c \in Compilers, WriteBlock(c) PROVE CleanInv'
  <2>1. CASE written[c] < Blocks[text[c]]
    <3>1. text[c] \in Bytes /\ written[c] + 1 \in Nat \ {0} /\ object \in Seq(Bytes)
      <4>1. pc[c] = "write"
        BY <1>9 DEF WriteBlock
      <4>2. text[c] \in Texts /\ written[c] \in Nat
        BY <4>1 DEF StateInv, Knows
      <4> QED BY <4>2 DEF StateInv, Bytes
    <3>2. Clean(text[c]) /\ Clean(Hole)
      BY <1>9, GeneratedClean, NamesAssumption DEF WriteBlock, Generated, Clean
    <3>3. object' = WriteAt(object, written[c] + 1, text[c])
      BY <1>9, <2>1 DEF WriteBlock
    <3>4. \A i \in 1 .. Len(object') : Clean(object'[i])
      <4> SUFFICES ASSUME NEW i \in 1 .. Len(object') PROVE Clean(object'[i])
        OBVIOUS
      <4>1. object'[i] = IF i = written[c] + 1 THEN text[c]
                         ELSE IF i <= Len(object) THEN object[i] ELSE Hole
        <5> DEFINE f == WriteAt(object, written[c] + 1, text[c])
        <5>1. \A k \in 1 .. Len(f) :
                f[k] = IF k = written[c] + 1 THEN text[c]
                       ELSE IF k <= Len(object) THEN object[k] ELSE Hole
          BY <3>1, WriteAtFile
        <5> HIDE DEF f
        <5>2. object' = f
          BY <3>3 DEF f
        <5> QED BY <5>1, <5>2
      <4>2. i <= Len(object) => Clean(object[i])
        BY <3>1 DEF CleanInv, RefusedLeaveNoTrace
      <4> QED BY <3>2, <4>1, <4>2
    <3>5. RefusedLeaveNoTrace'
      BY <1>9, <3>4 DEF WriteBlock, CleanInv, RefusedLeaveNoTrace, Clean
    <3> QED BY <1>9, <2>1, <1>a, <3>5 DEF WriteBlock, CleanInv
  <2>2. CASE ~(written[c] < Blocks[text[c]])
    BY <1>9, <2>2, <1>0, <1>a DEF WriteBlock, Goto, StateInv, files, Behind, Generated, CleanInv
  <2> QED BY <2>1, <2>2
<1>10. ASSUME NEW c \in Compilers, ReadObject(c) PROVE CleanInv'
  <2>1. /\ image' = [image EXCEPT ![c] = object] /\ text' = text /\ UNCHANGED files
    BY <1>10 DEF ReadObject
  <2>3. PICK stage \in {"linking", "orphan_linking"} :
          pc[c] \in {"link", "orphan_link"} /\ pc' = [pc EXCEPT ![c] = stage]
    BY <1>10 DEF ReadObject, Goto
  <2>2. ASSUME NEW d \in Compilers PROVE HoldsClean(d)'
    <3>1. CASE d = c
      <4>1. /\ image'[d] = object /\ pc'[d] \in {"linking", "orphan_linking"}
            /\ text'[d] = text[d] /\ pc[d] \in {"link", "orphan_link"}
        BY <2>1, <2>3, <3>1 DEF StateInv
      <4> QED BY <4>1 DEF CleanInv, RefusedLeaveNoTrace, HoldsClean, Clean, Behind, Generated
    <3>2. CASE d # c
      <4>1. image'[d] = image[d] /\ pc'[d] = pc[d] /\ text'[d] = text[d]
        BY <2>1, <2>3, <3>2 DEF StateInv
      <4> QED BY <4>1 DEF CleanInv, HoldsClean, Clean
    <3> QED BY <3>1, <3>2
  <2> QED BY <1>0, <2>1, <2>2 DEF CleanInv
<1>11. ASSUME NEW c \in Compilers, WriteExecutable(c) PROVE CleanInv'
  <2>1. RefusedLeaveNoTrace'
    BY <1>11, MadeClean DEF WriteExecutable, CleanInv, RefusedLeaveNoTrace, Clean
  <2>2. UNCHANGED << text, image >>
    BY <1>11 DEF WriteExecutable, memory
  <2>3. Behind(pc'[c]) = Behind(pc[c]) /\ \A d \in Compilers \ {c} : pc'[d] = pc[d]
    BY <1>11 DEF WriteExecutable, Goto, StateInv, Behind, Generated
  <2> QED BY <1>a, <2>1, <2>2, <2>3 DEF CleanInv
<1>12. ASSUME NEW c \in Compilers, LinkOrphan(c) PROVE CleanInv'
  <2>1. RefusedLeaveNoTrace'
    BY <1>12, MadeClean DEF LinkOrphan, CleanInv, RefusedLeaveNoTrace, Clean
  <2>2. Goto(c, "died") /\ Forget(c)
    BY <1>12 DEF LinkOrphan
  <2> QED BY <2>1, <2>2, ForgetClean DEF CleanInv
<1>15. ASSUME NEW c \in Compilers, FinishLink(c) PROVE CleanInv'
  BY <1>0, <1>15, LeaveClean DEF FinishLink, Throw, CleanInv
<1>13. ASSUME NEW c \in Compilers, Kill(c) PROVE CleanInv'
  <2>1. CASE Leave(c, "died")
    BY <1>0, <1>13, <2>1, LeaveClean DEF Kill, CleanInv
  <2>2. CASE ~Leave(c, "died")
    BY <1>0, <1>13, <2>2, <1>a DEF Kill, Goto, memory, StateInv, Behind, Generated, CleanInv
  <2> QED BY <2>1, <2>2
<1>14. CASE UNCHANGED vars
  <2>1. ASSUME NEW d \in Compilers PROVE HoldsClean(d)'
    BY <1>14 DEF vars, memory, CleanInv, HoldsClean, Clean
  <2> QED BY <1>0, <1>14, <2>1 DEF vars, CleanInv
<1> QED
  BY <1>1, <1>2, <1>3, <1>4, <1>5, <1>6, <1>7, <1>8, <1>9, <1>10, <1>11, <1>12, <1>13, <1>14,
     <1>15
  DEF Next, Compile

(* Nothing of a text that a pass refuses reaches output.o, output or a     *)
(* listing, whatever runs at once and whatever is killed.                  *)
THEOREM RefusedNeverWritten == Spec => []RefusedLeaveNoTrace
<1>1. Init => StateInv /\ CleanInv
  BY InitState, InitClean
<1>2. StateInv /\ CleanInv /\ [Next]_vars => StateInv' /\ CleanInv'
  BY StateStep, CleanStep
<1>3. CleanInv => RefusedLeaveNoTrace
  BY DEF CleanInv
<1> QED BY <1>1, <1>2, <1>3, PTL DEF Spec

----------------------------------------------------------------------------
(* Without a message, the text is that of the file asked for.              *)
Honest(c) ==
  pc[c] \notin Ended \cup {"start", "read"} /\ ~message[c] => text[c] = Disk[filename[c]]

(* Nobody else writes into the output.o of an undisturbed process, which   *)
(* finds in it what it wrote.                                              *)
Alone(c) ==
  UsesObject(c) /\ ~disturbed[c] =>
    /\ \A d \in Compilers \ {c} : pc[d] # "write"
    /\ Len(object) = written[c]
    /\ \A i \in 1 .. Len(object) : object[i] = text[c]

(* The object is complete, and clang has read it.                          *)
Complete(c) ==
  /\ pc[c] = "link" => written[c] = Blocks[text[c]]
  /\ pc[c] = "linking" /\ ~disturbed[c] =>
       Len(image[c]) = Blocks[text[c]] /\ \A i \in 1 .. Len(image[c]) : image[c][i] = text[c]

(* clang has made the executable of it.                                    *)
Made(c) == pc[c] = "linked" /\ ~disturbed[c] => executable = text[c]

Asked(c) == Honest(c) /\ Alone(c) /\ Complete(c) /\ Made(c)

AskedInv == \A c \in Compilers : Asked(c)

LEMMA InitAsked == Init => AskedInv
<1> SUFFICES ASSUME Init, NEW c \in Compilers PROVE Asked(c)
  BY DEF AskedInv
<1>1. pc[c] = "exited"
  BY DEF Init
<1> QED BY <1>1 DEF Asked, Honest, Alone, Complete, Made, UsesObject, Ended

(* A step of c that changes nothing for the others, but output for those   *)
(* it disturbs.                                                            *)
LeavesOthers(c) ==
  \A d \in Compilers \ {c} :
    /\ pc'[d] = pc[d] /\ filename'[d] = filename[d] /\ text'[d] = text[d]
    /\ message'[d] = message[d] /\ written'[d] = written[d] /\ image'[d] = image[d]
    /\ disturbed[d] => disturbed'[d]
    /\ pc[d] = "linked" /\ ~disturbed'[d] => executable' = executable

LEMMA OthersAsked ==
  ASSUME AskedInv, NEW c \in Compilers, object' = object, pc'[c] # "write", LeavesOthers(c),
         NEW d \in Compilers \ {c}
  PROVE  Asked(d)'
<1>1. Asked(d)
  BY DEF AskedInv
<1>2. /\ pc'[d] = pc[d] /\ filename'[d] = filename[d] /\ text'[d] = text[d]
      /\ message'[d] = message[d] /\ written'[d] = written[d] /\ image'[d] = image[d]
      /\ disturbed[d] => disturbed'[d]
      /\ pc[d] = "linked" /\ ~disturbed'[d] => executable' = executable
  BY DEF LeavesOthers
<1>3. Honest(d)'
  BY <1>1, <1>2 DEF Asked, Honest
<1>4. Complete(d)'
  BY <1>1, <1>2 DEF Asked, Complete
<1>5. Made(d)'
  BY <1>1, <1>2 DEF Asked, Made
<1>6. Alone(d)'
  <2>1. \A e \in Compilers : pc'[e] = "write" => pc[e] = "write"
    BY DEF LeavesOthers
  <2> QED BY <1>1, <1>2, <2>1 DEF Asked, Alone, UsesObject
<1> QED BY <1>3, <1>4, <1>5, <1>6 DEF Asked

(* ... and that takes c itself nowhere near the object or its linker.      *)
LEMMA AwayAsked ==
  ASSUME AskedInv, NEW c \in Compilers, object' = object, LeavesOthers(c), Honest(c)',
         pc'[c] \notin {"write", "link", "linking", "linked"}
  PROVE  AskedInv'
<1> SUFFICES ASSUME NEW d \in Compilers PROVE Asked(d)'
  BY DEF AskedInv
<1>1. CASE d = c
  BY <1>1 DEF Asked, Alone, Complete, Made, UsesObject
<1>2. CASE d # c
  BY <1>2, OthersAsked
<1> QED BY <1>1, <1>2

LEMMA LeaveAsked ==
  ASSUME StateInv, AskedInv, NEW c \in Compilers, NEW end \in Ended, Leave(c, end),
         object' = object, executable' = executable,
         \A d \in Compilers \ {c} : message'[d] = message[d]
  PROVE  AskedInv'
<1>1. /\ pc' = [pc EXCEPT ![c] = end]
      /\ filename' = [filename EXCEPT ![c] = NoText]
      /\ text' = [text EXCEPT ![c] = NoText]
      /\ written' = [written EXCEPT ![c] = 0]
      /\ image' = [image EXCEPT ![c] = << >>]
      /\ disturbed' = [disturbed EXCEPT ![c] = FALSE]
  BY DEF Leave, Goto, Forget
<1>2. pc'[c] = end
  BY <1>1 DEF StateInv, Shapes
<1>3. Honest(c)' /\ pc'[c] \notin {"write", "link", "linking", "linked"}
  BY <1>2 DEF Honest, Ended
<1>4. LeavesOthers(c)
  BY <1>1 DEF StateInv, Shapes, LeavesOthers
<1> QED BY <1>3, <1>4, AwayAsked

LEMMA ThrowAsked ==
  ASSUME StateInv, AskedInv, NEW c \in Compilers, Throw(c), object' = object,
         executable' = executable
  PROVE  AskedInv'
<1>1. "exited" \in Ended /\ \A d \in Compilers \ {c} : message'[d] = message[d]
  BY DEF Throw, Ended, StateInv, Shapes
<1> QED BY <1>1, LeaveAsked DEF Throw

LEMMA AskedStep == StateInv /\ AskedInv /\ [Next]_vars => AskedInv'
<1> SUFFICES ASSUME StateInv, AskedInv, [Next]_vars PROVE AskedInv'
  OBVIOUS
<1> USE DEF Shapes, FileShapes
<1>1. ASSUME NEW c \in Compilers, Call(c) PROVE AskedInv'
  <2>1. /\ pc' = [pc EXCEPT ![c] = "start"]
        /\ UNCHANGED << text, written, image, disturbed, object, executable >>
        /\ message' = [message EXCEPT ![c] = FALSE]
    BY <1>1 DEF Call, Goto, files
  <2>2. \A d \in Compilers \ {c} : filename'[d] = filename[d]
    BY <1>1 DEF Call, StateInv
  <2>3. pc'[c] = "start" /\ Honest(c)'
    BY <2>1 DEF StateInv, Honest
  <2>4. LeavesOthers(c)
    BY <2>1, <2>2 DEF LeavesOthers, StateInv
  <2> QED BY <2>1, <2>3, <2>4, AwayAsked
<1>2. ASSUME NEW c \in Compilers, ParseArguments(c) PROVE AskedInv'
  <2>1. CASE Throw(c)
    BY <1>2, <2>1, ThrowAsked DEF ParseArguments, files
  <2>2. CASE ~Throw(c)
    <3>1. pc' = [pc EXCEPT ![c] = "read"]
          /\ UNCHANGED << filename, text, message, written, image, disturbed, object, executable >>
      BY <1>2, <2>2 DEF ParseArguments, Goto, memory, files
    <3>2. pc'[c] = "read" /\ Honest(c)'
      BY <3>1 DEF StateInv, Honest
    <3>3. LeavesOthers(c)
      BY <3>1 DEF LeavesOthers, StateInv
    <3> QED BY <3>1, <3>2, <3>3, AwayAsked
  <2> QED BY <2>1, <2>2
<1>3. ASSUME NEW c \in Compilers, ReadFile(c) PROVE AskedInv'
  <2>0. /\ message' = [message EXCEPT ![c] = Disk[filename[c]] \in FileErrors]
        /\ object' = object /\ executable' = executable
    BY <1>3 DEF ReadFile, files
  <2>1. CASE \E end \in Ended : Leave(c, end)
    BY <2>0, <2>1, LeaveAsked DEF StateInv
  <2>2. CASE ~ \E end \in Ended : Leave(c, end)
    <3>1. PICK t \in Texts : Disk[filename[c]] \in {t} \cup FileErrors
                             /\ text' = [text EXCEPT ![c] = t]
      BY <1>3, <2>2 DEF ReadFile
    <3>2. pc' = [pc EXCEPT ![c] = "tokenise"]
          /\ UNCHANGED << filename, written, image, disturbed >>
      BY <1>3, <2>2 DEF ReadFile, Goto
    <3>3. pc'[c] = "tokenise" /\ Honest(c)'
      BY <2>0, <3>1, <3>2 DEF StateInv, Honest
    <3>4. LeavesOthers(c)
      BY <2>0, <3>1, <3>2 DEF LeavesOthers, StateInv
    <3> QED BY <2>0, <3>3, <3>4, AwayAsked
  <2> QED BY <2>1, <2>2
<1>4. ASSUME NEW c \in Compilers, RunPass(c) PROVE AskedInv'
  <2>1. CASE Throw(c)
    BY <1>4, <2>1, ThrowAsked DEF RunPass, files
  <2>2. CASE ~Throw(c)
    <3>1. /\ pc[c] \in Passes
          /\ IF pc[c] # "generate" THEN Goto(c, PassAfter[pc[c]])
             ELSE Goto(c, IF output_llvm[c] THEN "list" ELSE "emit")
          /\ UNCHANGED << filename, text, message, written, image, disturbed, object, executable >>
      BY <1>4, <2>2 DEF RunPass, memory, files
    <3>2. /\ pc'[c] \notin {"write", "link", "linking", "linked"}
          /\ \A d \in Compilers \ {c} : pc'[d] = pc[d]
      BY <3>1 DEF Goto, PassAfter, Passes, StateInv
    <3>3. Honest(c)'
      BY <3>1 DEF AskedInv, Asked, Honest, Passes, Ended
    <3>4. LeavesOthers(c)
      BY <3>1, <3>2 DEF LeavesOthers
    <3> QED BY <3>1, <3>2, <3>3, <3>4, AwayAsked
  <2> QED BY <2>1, <2>2
<1>5. ASSUME NEW c \in Compilers, OpenListing(c) PROVE AskedInv'
  <2>1. /\ pc[c] = "list" /\ pc'[c] \in {"print_list", "emit"}
        /\ message' = message \/ message' = [message EXCEPT ![c] = TRUE]
        /\ \A d \in Compilers \ {c} : pc'[d] = pc[d]
        /\ UNCHANGED << filename, text, written, image, disturbed, object, executable >>
    BY <1>5 DEF OpenListing, Goto, StateInv
  <2>2. Honest(c)' /\ \A d \in Compilers \ {c} : message'[d] = message[d]
    BY <2>1 DEF StateInv, AskedInv, Asked, Honest, Ended
  <2>3. LeavesOthers(c)
    BY <2>1, <2>2 DEF LeavesOthers
  <2> QED BY <2>1, <2>2, <2>3, AwayAsked
<1>6. ASSUME NEW c \in Compilers, PrintListing(c) PROVE AskedInv'
  <2>1. /\ pc[c] = "print_list" /\ pc'[c] = "emit"
        /\ \A d \in Compilers \ {c} : pc'[d] = pc[d]
        /\ UNCHANGED << filename, text, message, written, image, disturbed, object, executable >>
    BY <1>6 DEF PrintListing, Goto, StateInv
  <2>2. Honest(c)'
    BY <2>1 DEF AskedInv, Asked, Honest, Ended
  <2>3. LeavesOthers(c)
    BY <2>1 DEF LeavesOthers
  <2> QED BY <2>1, <2>2, <2>3, AwayAsked
<1>7. ASSUME NEW c \in Compilers, OpenObject(c) PROVE AskedInv'
  <2>1. /\ pc[c] = "emit" /\ pc' = [pc EXCEPT ![c] = "write"] /\ object' = << >>
        /\ disturbed' = [d \in Compilers |->
             disturbed[d] \/ d \in Displaced(c) \/ (d = c /\ WrittenInto(c))]
        /\ UNCHANGED << filename, text, message, written, image, executable >>
    BY <1>7 DEF OpenObject, Goto, memory
  <2>2. written[c] = 0
    BY <2>1 DEF StateInv, Knows, Linking, Orphans
  <2> SUFFICES ASSUME NEW d \in Compilers PROVE Asked(d)'
    BY DEF AskedInv
  <2>3. CASE d = c
    <3>1. pc'[d] = "write" /\ Honest(d)' /\ Complete(d)' /\ Made(d)'
      BY <2>1, <2>3 DEF StateInv, AskedInv, Asked, Honest, Complete, Made, Ended
    <3>2. Alone(d)'
      <4> SUFFICES ASSUME ~disturbed'[d]
                   PROVE  /\ \A e \in Compilers \ {d} : pc'[e] # "write"
                          /\ Len(object') = written'[d]
                          /\ \A i \in 1 .. Len(object') : object'[i] = text'[d]
        BY DEF Alone
      <4>1. ~WrittenInto(c)
        BY <2>1, <2>3
      <4>2. \A e \in Compilers \ {d} : pc'[e] # "write"
        BY <2>1, <2>3, <4>1 DEF StateInv, WrittenInto
      <4> QED BY <2>1, <2>2, <2>3, <4>2
    <3> QED BY <3>1, <3>2 DEF Asked
  <2>4. CASE d # c
    <3>1. pc'[d] = pc[d]
      BY <2>1, <2>4 DEF StateInv
    <3>2. UsesObject(d) => disturbed'[d]
      BY <2>1, <2>4 DEF Displaced
    <3>3. disturbed[d] => disturbed'[d]
      BY <2>1
    <3>4. Honest(d)' /\ Complete(d)' /\ Made(d)'
      BY <2>1, <3>1, <3>3 DEF AskedInv, Asked, Honest, Complete, Made
    <3>5. Alone(d)'
      BY <3>1, <3>2 DEF Alone, UsesObject
    <3> QED BY <3>4, <3>5 DEF Asked
  <2> QED BY <2>3, <2>4
<1>8. ASSUME NEW c \in Compilers, FailToEmit(c) PROVE AskedInv'
  BY <1>8, ThrowAsked DEF FailToEmit, files
<1>9. ASSUME NEW c \in Compilers, WriteBlock(c) PROVE AskedInv'
  <2>1. pc[c] = "write" /\ UNCHANGED << filename, text, message, image, disturbed, executable >>
    BY <1>9 DEF WriteBlock
  <2>2. text[c] \in Texts /\ Blocks[text[c]] \in Nat /\ written[c] \in Nat
        /\ text[c] # NoText /\ text[c] \in Bytes /\ object \in Seq(Bytes)
    BY <2>1, BlocksAssumption, NamesAssumption DEF StateInv, Knows, Ended, Bytes
  <2>3. written[c] <= Blocks[text[c]]
    BY <2>2 DEF StateInv, Knows
  <2> SUFFICES ASSUME NEW d \in Compilers PROVE Asked(d)'
    BY DEF AskedInv
  <2>4. CASE written[c] < Blocks[text[c]]
    <3>1. /\ written' = [written EXCEPT ![c] = @ + 1] /\ pc' = pc
          /\ object' = WriteAt(object, written[c] + 1, text[c])
      BY <1>9, <2>4 DEF WriteBlock
    <3>2. Honest(d)' /\ Complete(d)' /\ Made(d)'
      <4>1. CASE d = c
        BY <2>1, <3>1, <4>1 DEF AskedInv, Asked, Honest, Complete, Made
      <4>2. CASE d # c
        <5>1. written'[d] = written[d]
          BY <3>1, <4>2 DEF StateInv
        <5> QED BY <2>1, <3>1, <5>1 DEF AskedInv, Asked, Honest, Complete, Made
      <4> QED BY <4>1, <4>2
    <3>3. Alone(d)'
      <4> SUFFICES ASSUME UsesObject(d), ~disturbed[d]
                   PROVE  /\ \A e \in Compilers \ {d} : pc[e] # "write"
                          /\ Len(object') = written'[d]
                          /\ \A i \in 1 .. Len(object') : object'[i] = text[d]
        BY <2>1, <3>1 DEF Alone, UsesObject
      <4>1. /\ \A e \in Compilers \ {d} : pc[e] # "write"
            /\ Len(object) = written[d]
            /\ \A i \in 1 .. Len(object) : object[i] = text[d]
        BY DEF AskedInv, Asked, Alone
      <4>2. d = c
        BY <2>1, <4>1
      <4>3. written[c] = Len(object) /\ \A i \in 1 .. Len(object) : object[i] = text[c]
        BY <4>1, <4>2
      <4>4. Len(object') = written[c] + 1 /\ \A i \in 1 .. Len(object') : object'[i] = text[c]
        <5>1. object \in Seq(Bytes) /\ text[c] \in Bytes
          BY <2>2
        <5>2. object' = WriteAt(object, Len(object) + 1, text[c])
          BY <3>1, <4>3
        <5> QED BY <4>3, <5>1, <5>2, WriteNext
      <4>5. written'[c] = written[c] + 1
        BY <3>1 DEF StateInv
      <4> QED BY <4>1, <4>2, <4>4, <4>5
    <3> QED BY <3>2, <3>3 DEF Asked
  <2>5. CASE ~(written[c] < Blocks[text[c]])
    <3>1. pc' = [pc EXCEPT ![c] = "link"] /\ UNCHANGED << written, object >>
      BY <1>9, <2>5 DEF WriteBlock, Goto
    <3>2. \A e \in Compilers : /\ UsesObject(e)' <=> UsesObject(e)
                               /\ pc'[e] = "write" => pc[e] = "write"
      BY <2>1, <3>1 DEF StateInv, UsesObject
    <3>3. Alone(d)'
      BY <2>1, <3>1, <3>2 DEF AskedInv, Asked, Alone
    <3>4. Honest(d)' /\ Made(d)'
      BY <2>1, <3>1 DEF StateInv, AskedInv, Asked, Honest, Made, Ended
    <3>5. written[c] = Blocks[text[c]]
      BY <2>2, <2>3, <2>5
    <3>6. Complete(d)'
      BY <2>1, <3>1, <3>5 DEF StateInv, AskedInv, Asked, Complete
    <3> QED BY <3>3, <3>4, <3>6 DEF Asked
  <2> QED BY <2>4, <2>5
<1>10. ASSUME NEW c \in Compilers, ReadObject(c) PROVE AskedInv'
  <2>1. /\ image' = [image EXCEPT ![c] = object]
        /\ UNCHANGED << filename, text, message, written, disturbed, object, executable >>
    BY <1>10 DEF ReadObject, files
  <2>2. CASE pc[c] = "orphan_link"
    <3>1. pc' = [pc EXCEPT ![c] = "orphan_linking"]
      BY <1>10, <2>2 DEF ReadObject, Goto
    <3>2. pc'[c] = "orphan_linking" /\ Honest(c)'
      BY <2>1, <2>2, <3>1 DEF StateInv, AskedInv, Asked, Honest, Ended
    <3>3. LeavesOthers(c)
      BY <2>1, <3>1 DEF StateInv, LeavesOthers
    <3> QED BY <2>1, <3>2, <3>3, AwayAsked
  <2>3. CASE pc[c] # "orphan_link"
    <3>1. pc[c] = "link" /\ pc' = [pc EXCEPT ![c] = "linking"]
      BY <1>10, <2>3 DEF ReadObject, Goto
    <3>2. pc'[c] = "linking" /\ image'[c] = object
      BY <2>1, <3>1 DEF StateInv
    <3>3. LeavesOthers(c)
      BY <2>1, <3>1 DEF StateInv, LeavesOthers
    <3>4. Honest(c)' /\ Alone(c)' /\ Made(c)'
      BY <2>1, <3>1, <3>2 DEF AskedInv, Asked, Honest, Alone, Made, UsesObject, Ended
    <3>5. Complete(c)'
      <4> SUFFICES ASSUME ~disturbed[c]
                   PROVE  /\ Len(image'[c]) = Blocks[text[c]]
                          /\ \A i \in 1 .. Len(image'[c]) : image'[c][i] = text[c]
        BY <2>1, <3>2 DEF Complete
      <4>1. Alone(c) /\ Complete(c) /\ UsesObject(c)
        BY <3>1 DEF AskedInv, Asked, UsesObject
      <4> QED BY <3>1, <3>2, <4>1 DEF Alone, Complete
    <3> SUFFICES ASSUME NEW d \in Compilers \ {c} PROVE Asked(d)'
      BY <3>4, <3>5 DEF AskedInv, Asked
    <3> QED BY <2>1, <3>2, <3>3, OthersAsked
  <2> QED BY <2>2, <2>3
<1>11. ASSUME NEW c \in Compilers, WriteExecutable(c) PROVE AskedInv'
  <2>1. /\ pc[c] = "linking" /\ disturbed' = [d \in Compilers |-> disturbed[d] \/ d \in Overwritten(c)]
        /\ UNCHANGED << filename, text, message, written, image, object >>
    BY <1>11 DEF WriteExecutable, memory
  <2>2. PICK end \in {"linked", "link_failed"} :
          /\ pc' = [pc EXCEPT ![c] = end]
          /\ end = "linked" => MakesExecutable(c)
    BY <1>11 DEF WriteExecutable, Goto
  <2>3. pc'[c] = end /\ disturbed'[c] = disturbed[c]
    BY <2>1, <2>2 DEF StateInv, Overwritten
  <2>4. LeavesOthers(c)
    BY <2>1, <2>2 DEF StateInv, LeavesOthers, Overwritten
  <2>5. Honest(c)'
    BY <2>1, <2>3 DEF AskedInv, Asked, Honest, Ended
  <2>6. CASE end = "link_failed"
    BY <2>1, <2>3, <2>4, <2>5, <2>6, AwayAsked
  <2>7. CASE end = "linked"
    <3>1. Alone(c)' /\ Complete(c)'
      BY <2>3, <2>7 DEF Alone, Complete, UsesObject
    <3>2. Made(c)'
      <4> SUFFICES ASSUME ~disturbed[c] PROVE executable' = text[c]
        BY <2>1, <2>3 DEF Made
      <4>1. PICK t \in HasMain : HoldsObject(image[c], t) /\ executable' = t
        BY <2>2, <2>7 DEF MakesExecutable
      <4>2. \A i \in 1 .. Len(image[c]) : image[c][i] = text[c]
        BY <2>1 DEF AskedInv, Asked, Complete
      <4>3. Blocks[t] \in Nat \ {0} /\ Len(image[c]) \in Nat
        BY BlocksAssumption DEF StateInv
      <4>4. 1 \in 1 .. Len(image[c]) /\ image[c][1] = t
        BY <4>1, <4>3 DEF HoldsObject
      <4> QED BY <4>1, <4>2, <4>4
    <3> SUFFICES ASSUME NEW d \in Compilers \ {c} PROVE Asked(d)'
      BY <2>5, <3>1, <3>2 DEF AskedInv, Asked
    <3> QED BY <2>1, <2>3, <2>4, <2>7, OthersAsked
  <2> QED BY <2>6, <2>7
<1>12. ASSUME NEW c \in Compilers, LinkOrphan(c) PROVE AskedInv'
  <2>1. /\ pc' = [pc EXCEPT ![c] = "died"]
        /\ filename' = [filename EXCEPT ![c] = NoText]
        /\ text' = [text EXCEPT ![c] = NoText]
        /\ written' = [written EXCEPT ![c] = 0]
        /\ image' = [image EXCEPT ![c] = << >>]
        /\ disturbed' = [d \in Compilers |-> d # c /\ (disturbed[d] \/ d \in Overwritten(c))]
        /\ UNCHANGED << message, object >>
    BY <1>12 DEF LinkOrphan, Goto, Forget
  <2>2. pc'[c] = "died" /\ Honest(c)'
    BY <2>1 DEF StateInv, Honest, Ended
  <2>3. LeavesOthers(c)
    <3> SUFFICES ASSUME NEW d \in Compilers \ {c}
                 PROVE  /\ pc'[d] = pc[d] /\ filename'[d] = filename[d] /\ text'[d] = text[d]
                        /\ message'[d] = message[d] /\ written'[d] = written[d]
                        /\ image'[d] = image[d] /\ (disturbed[d] => disturbed'[d])
                        /\ pc[d] = "linked" /\ ~disturbed'[d] => executable' = executable
      BY DEF LeavesOthers
    <3>1. disturbed'[d] <=> disturbed[d] \/ d \in Overwritten(c)
      BY <2>1
    <3>2. pc[d] = "linked" /\ executable' # executable => d \in Overwritten(c)
      BY DEF Overwritten
    <3> QED BY <2>1, <3>1, <3>2 DEF StateInv
  <2> QED BY <2>1, <2>2, <2>3, AwayAsked
<1>13. ASSUME NEW c \in Compilers, Kill(c) PROVE AskedInv'
  <2>1. CASE Leave(c, "died")
    BY <1>13, <2>1, LeaveAsked DEF Kill, files, Ended
  <2>2. CASE ~Leave(c, "died")
    <3>1. /\ UNCHANGED << filename, text, message, written, image, disturbed, object, executable >>
          /\ pc[c] \in {"link", "linking"}
      BY <1>13, <2>2 DEF Kill, memory, files
    <3>2. PICK end \in Orphans : pc' = [pc EXCEPT ![c] = end]
      BY <1>13, <2>2 DEF Kill, Goto, Orphans
    <3>3. pc'[c] \in Orphans /\ Honest(c)'
      BY <3>1, <3>2 DEF StateInv, AskedInv, Asked, Honest, Ended
    <3>4. LeavesOthers(c)
      BY <3>1, <3>2 DEF StateInv, LeavesOthers
    <3> QED BY <3>1, <3>3, <3>4, AwayAsked DEF Orphans
  <2> QED BY <2>1, <2>2
<1>14. CASE UNCHANGED vars
  BY <1>14 DEF vars, memory, files, AskedInv, Asked, Honest, Alone, Complete, Made, UsesObject
<1>15. ASSUME NEW c \in Compilers, FinishLink(c) PROVE AskedInv'
  <2>1. CASE Throw(c)
    BY <1>15, <2>1, ThrowAsked DEF FinishLink, files
  <2>2. CASE ~Throw(c)
    BY <1>15, <2>2, LeaveAsked DEF FinishLink, files, Ended
  <2> QED BY <2>1, <2>2
<1> QED
  BY <1>1, <1>2, <1>3, <1>4, <1>5, <1>6, <1>7, <1>8, <1>9, <1>10, <1>11, <1>12, <1>13, <1>14,
     <1>15
  DEF Next, Compile

(* What the property says of one step.                                     *)
SilentEndsHaveProgram ==
  \A c \in Compilers :
    pc[c] # "exited" /\ pc'[c] = "exited" /\ ~message'[c] =>
      executable' = Disk[filename[c]] \/ disturbed[c]

LEMMA SilentStep == StateInv /\ AskedInv /\ [Next]_vars => SilentEndsHaveProgram
<1> SUFFICES ASSUME StateInv, AskedInv, [Next]_vars, NEW c \in Compilers,
                    pc[c] # "exited", pc'[c] = "exited", ~message'[c], ~disturbed[c]
             PROVE  executable' = Disk[filename[c]]
  BY DEF SilentEndsHaveProgram
<1> USE DEF Shapes, Ended, Passes
<1>0. ASSUME NEW d \in Compilers, Throw(d) PROVE d # c
  BY <1>0 DEF Throw, StateInv
<1>m. ASSUME NEW d \in Compilers, NEW stage, Goto(d, stage) PROVE d = c /\ stage = "exited"
  BY <1>m DEF Goto, StateInv
<1>l. ASSUME NEW d \in Compilers, NEW end, Leave(d, end) PROVE d = c /\ end = "exited"
  BY <1>l, <1>m DEF Leave
<1>t. ASSUME NEW d \in Compilers, Throw(d) PROVE FALSE
  BY <1>0, <1>l, <1>t DEF Throw
<1>1. ASSUME NEW d \in Compilers, Call(d) PROVE FALSE
  BY <1>1, <1>m DEF Call
<1>2. ASSUME NEW d \in Compilers, ParseArguments(d) PROVE FALSE
  BY <1>2, <1>m, <1>t DEF ParseArguments
<1>3. ASSUME NEW d \in Compilers, ReadFile(d) PROVE FALSE
  <2>1. message' = [message EXCEPT ![d] = Disk[filename[d]] \in FileErrors]
    BY <1>3 DEF ReadFile
  <2>2. CASE Goto(d, "tokenise")
    BY <2>2, <1>m
  <2>3. CASE ~Goto(d, "tokenise")
    <3>1. Disk[filename[d]] \in FileErrors /\ d = c
      BY <1>3, <2>3, <1>l DEF ReadFile
    <3> QED BY <2>1, <3>1 DEF StateInv
  <2> QED BY <2>2, <2>3
<1>4. ASSUME NEW d \in Compilers, RunPass(d) PROVE FALSE
  <2>1. ~Throw(d)
    BY <1>t
  <2>2. pc[d] \in Passes /\ IF pc[d] # "generate" THEN Goto(d, PassAfter[pc[d]])
                            ELSE Goto(d, IF output_llvm[d] THEN "list" ELSE "emit")
    BY <1>4, <2>1 DEF RunPass
  <2>3. pc[d] # "generate" => PassAfter[pc[d]] # "exited"
    BY <2>2 DEF PassAfter
  <2> QED BY <2>2, <2>3, <1>m
<1>5. ASSUME NEW d \in Compilers, OpenListing(d) PROVE FALSE
  BY <1>5, <1>m DEF OpenListing
<1>6. ASSUME NEW d \in Compilers, PrintListing(d) PROVE FALSE
  BY <1>6, <1>m DEF PrintListing
<1>7. ASSUME NEW d \in Compilers, OpenObject(d) PROVE FALSE
  BY <1>7, <1>m DEF OpenObject
<1>8. ASSUME NEW d \in Compilers, FailToEmit(d) PROVE FALSE
  BY <1>8, <1>t DEF FailToEmit
<1>9. ASSUME NEW d \in Compilers, WriteBlock(d) PROVE FALSE
  BY <1>9, <1>m DEF WriteBlock
<1>10. ASSUME NEW d \in Compilers, ReadObject(d) PROVE FALSE
  BY <1>10, <1>m DEF ReadObject
<1>11. ASSUME NEW d \in Compilers, WriteExecutable(d) PROVE FALSE
  BY <1>11, <1>m DEF WriteExecutable
<1>12. ASSUME NEW d \in Compilers, LinkOrphan(d) PROVE FALSE
  BY <1>12, <1>m DEF LinkOrphan
<1>13. ASSUME NEW d \in Compilers, Kill(d) PROVE FALSE
  BY <1>13, <1>l, <1>m DEF Kill
<1>14. CASE UNCHANGED vars
  BY <1>14 DEF vars
<1>15. ASSUME NEW d \in Compilers, FinishLink(d) PROVE executable' = Disk[filename[c]]
  <2>1. pc[d] = "linked" /\ Leave(d, "exited") /\ executable' = executable
    BY <1>15, <1>t DEF FinishLink, files
  <2>2. d = c /\ message' = message
    BY <1>15, <1>t, <2>1, <1>l DEF FinishLink
  <2>3. Honest(c) /\ Made(c)
    BY DEF AskedInv, Asked
  <2>4. text[c] = Disk[filename[c]]
    BY <2>1, <2>2, <2>3 DEF Honest
  <2> QED BY <2>1, <2>2, <2>3, <2>4 DEF Made
<1> QED
  BY <1>1, <1>2, <1>3, <1>4, <1>5, <1>6, <1>7, <1>8, <1>9, <1>10, <1>11, <1>12, <1>13, <1>14,
     <1>15
  DEF Next, Compile

(* A compilation that ends without a message has made the program of the   *)
(* file it was asked for, unless another one came between.                 *)
THEOREM SilenceIsSuccess == Spec => SilenceMeansSuccess
<1>1. Init => StateInv /\ AskedInv
  BY InitState, InitAsked
<1>2. StateInv /\ AskedInv /\ [Next]_vars => StateInv' /\ AskedInv'
  BY StateStep, AskedStep
<1>3. StateInv /\ AskedInv /\ [Next]_vars => [SilentEndsHaveProgram]_vars
  BY SilentStep
<1>4. SilenceMeansSuccess <=> [][SilentEndsHaveProgram]_vars
  BY PTL DEF SilenceMeansSuccess, SilentEndsHaveProgram
<1> QED BY <1>1, <1>2, <1>3, <1>4, PTL DEF Spec
============================================================================
