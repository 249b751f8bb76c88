------------------------------- MODULE Driver -------------------------------
(***************************************************************************)
(* The program as its user sees it: main() (src/main.cxx), compile()       *)
(* (src/frontend.cxx), read_entire_file() (src/file_io.cxx), and the files *)
(* CodegenVisitor::compile() and output_llvm() write.  Several processes   *)
(* run it in one directory, one after the other or at once.  Each reads a  *)
(* file of its own choice; all of them write the same output.o and output. *)
(*                                                                         *)
(* A pass is one step here and is told apart only by the texts it refuses; *)
(* printing the tree refuses none and is left out.                         *)
(* The file system, LLVM's object writer and clang are external: opening,  *)
(* looking up a target and linking may fail, and a process can be killed   *)
(* between any two steps.  An object is written in blocks.                 *)
(***************************************************************************)
EXTENDS Integers, Sequences

CONSTANTS
  Compilers,      \* the processes
  Texts,          \* what a source file may say
  Calls,          \* what users ask for: a source file, and whether to list it
  Disk,           \* the text of each source file, or why it cannot be read
  Refusal,        \* the pass that throws for a text, or Accepted
  Blocks,         \* the length of a text's object
  HasMain         \* the texts with a function main

Files    == DOMAIN Disk
Passes   == {"tokenise", "parse", "check", "generate"}
Accepted == "Accepted"

(* FileErrorCode                                                           *)
FileErrors == {"FileNotFound", "ReadFailed", "FileSizeError", "OutOfMemory", "Unknown"}

(* The blocks of an object file that nothing was written to.               *)
Hole == "Hole"
(* What a process that is not there has for its file and its text.         *)
NoText == "NoText"
(* The content of a file that does not exist, and of a truncated listing.  *)
Missing == "Missing"
Empty   == "Empty"

ASSUME DiskAssumption    == Disk \in [Files -> Texts \cup FileErrors]
ASSUME CallsAssumption   == Calls \subseteq Files \X BOOLEAN
ASSUME RefusalAssumption == Refusal \in [Texts -> Passes \cup {Accepted}]
ASSUME BlocksAssumption  == Blocks \in [Texts -> Nat \ {0}] /\ HasMain \subseteq Texts
ASSUME NamesAssumption   == Texts \cap (FileErrors \cup {Hole, NoText, Missing, Empty}) = {}

VARIABLES
  pc,             \* where each process is
  filename,       \* its argument
  output_llvm,    \* its flag --output-llvm
  text,           \* what it takes the file to say
  message,        \* whether it printed an error
  written,        \* the blocks of its object it has written
  image,          \* the object its linker read
  disturbed,      \* whether another came between its writing and its reading output.o,
                  \* or between its linker's writing output and its own end
  object,         \* output.o; << >> also when there is none
  executable,     \* output
  listing         \* the .ll file beside each source file

memory == << filename, output_llvm, text, written, image >>
files  == << object, executable, listing >>
vars   == << pc, memory, message, disturbed, files >>

(* Where a process that runs can be.                                       *)
Stages == Passes \cup
  {"start", "read", "list", "print_list", "emit", "write", "link", "linking",
   "linked", "link_failed"}
(* Where the clang of a killed process can be.                             *)
Orphans == {"orphan_link", "orphan_linking"}
Ended   == {"exited", "died"}

(* No process: nothing is kept from one call to the next but the files.    *)
Init ==
  /\ pc = [c \in Compilers |-> "exited"]
  /\ filename = [c \in Compilers |-> NoText]
  /\ output_llvm = [c \in Compilers |-> FALSE]
  /\ text = [c \in Compilers |-> NoText]
  /\ message = [c \in Compilers |-> FALSE]
  /\ written = [c \in Compilers |-> 0]
  /\ image = [c \in Compilers |-> << >>]
  /\ disturbed = [c \in Compilers |-> FALSE]
  /\ object = << >>
  /\ executable = Missing
  /\ listing = [f \in Files |-> Missing]

----------------------------------------------------------------------------
Goto(c, stage) == pc' = [pc EXCEPT ![c] = stage]

(* The process is gone, and its memory with it.                            *)
Forget(c) ==
  /\ filename' = [filename EXCEPT ![c] = NoText]
  /\ output_llvm' = [output_llvm EXCEPT ![c] = FALSE]
  /\ text' = [text EXCEPT ![c] = NoText]
  /\ written' = [written EXCEPT ![c] = 0]
  /\ image' = [image EXCEPT ![c] = << >>]

Leave(c, end) ==
  /\ Goto(c, end)
  /\ disturbed' = [disturbed EXCEPT ![c] = FALSE]
  /\ Forget(c)

(* An exception reaches main(), which prints what() and returns 0.         *)
Throw(c) ==
  /\ Leave(c, "exited")
  /\ message' = [message EXCEPT ![c] = TRUE]

(* The user calls the compiler.                                            *)
Call(c) ==
  /\ pc[c] \in Ended
  /\ \E call \in Calls :
       /\ filename' = [filename EXCEPT ![c] = call[1]]
       /\ output_llvm' = [output_llvm EXCEPT ![c] = call[2]]
  /\ message' = [message EXCEPT ![c] = FALSE]
  /\ Goto(c, "start")
  /\ UNCHANGED << text, written, image, disturbed, files >>

(* CLI11_PARSE leaves main() when the arguments are not understood.        *)
ParseArguments(c) ==
  /\ pc[c] = "start"
  /\ \/ Goto(c, "read") /\ UNCHANGED << memory, message, disturbed >>
     \/ Throw(c)
  /\ UNCHANGED files

----------------------------------------------------------------------------
(* read_entire_file and the error branch of compile(), which goes on: the  *)
(* contents it then copies do not exist.  That copy kills the process,     *)
(* throws, or makes some text of what is there.                            *)
ReadFile(c) ==
  /\ pc[c] = "read"
  /\ message' = [message EXCEPT ![c] = Disk[filename[c]] \in FileErrors]
  /\ \/ /\ \E t \in Texts :
             /\ Disk[filename[c]] \in {t} \cup FileErrors
             /\ text' = [text EXCEPT ![c] = t]
        /\ Goto(c, "tokenise")
        /\ UNCHANGED << filename, output_llvm, written, image, disturbed >>
     \/ /\ Disk[filename[c]] \in FileErrors
        /\ \E end \in Ended : Leave(c, end)
  /\ UNCHANGED files

PassAfter == [p \in Passes \ {"generate"} |->
  CASE p = "tokenise" -> "parse" [] p = "parse" -> "check" [] p = "check" -> "generate"]

(* Faulty: an error of a pass is printed and forgotten.                    *)
RunPassRegardless(c) ==
  /\ pc[c] \in Passes
  /\ IF pc[c] # "generate" THEN Goto(c, PassAfter[pc[c]])
     ELSE Goto(c, IF output_llvm[c] THEN "list" ELSE "emit")
  /\ message' = [message EXCEPT ![c] = @ \/ Refusal[text[c]] = pc[c]]
  /\ UNCHANGED << memory, disturbed, files >>

RunPass(c) ==
  /\ pc[c] \in Passes
  /\ IF Refusal[text[c]] = pc[c] THEN Throw(c)
     ELSE /\ IF pc[c] # "generate" THEN Goto(c, PassAfter[pc[c]])
             ELSE Goto(c, IF output_llvm[c] THEN "list" ELSE "emit")
          /\ UNCHANGED << memory, message, disturbed >>
  /\ UNCHANGED files

----------------------------------------------------------------------------
(* output_llvm: the stream truncates the file when it opens it; if opening *)
(* fails, before or after that, an error is printed and the compilation    *)
(* goes on.                                                                *)
OpenListing(c) ==
  /\ pc[c] = "list"
  /\ \/ /\ listing' = [listing EXCEPT ![filename[c]] = Empty]
        /\ Goto(c, "print_list")
        /\ UNCHANGED message
     \/ /\ message' = [message EXCEPT ![c] = TRUE]
        /\ listing' \in {listing, [listing EXCEPT ![filename[c]] = Empty]}
        /\ Goto(c, "emit")
  /\ UNCHANGED << filename, output_llvm, text, written, image, disturbed, object, executable >>

PrintListing(c) ==
  /\ pc[c] = "print_list"
  /\ listing' = [listing EXCEPT ![filename[c]] = text[c]]
  /\ Goto(c, "emit")
  /\ UNCHANGED << filename, output_llvm, text, message, written, image, disturbed,
                  object, executable >>

----------------------------------------------------------------------------
(* Between opening output.o and having read it for the link.               *)
UsesObject(c) == pc[c] \in {"write", "link"}

(* Processes that lose what they wrote when c opens output.o, and whether  *)
(* one of them goes on writing there.                                      *)
Displaced(c)   == {d \in Compilers \ {c} : UsesObject(d)}
WrittenInto(c) == \E d \in Compilers \ {c} : pc[d] = "write"

(* emit_object_file.  Opening truncates output.o but not what another      *)
(* process with the file open goes on to write; the stream and its offset  *)
(* are this process's own.                                                 *)
OpenObject(c) ==
  /\ pc[c] = "emit"
  /\ object' = << >>
  /\ disturbed' = [d \in Compilers |->
       disturbed[d] \/ d \in Displaced(c) \/ (d = c /\ WrittenInto(c))]
  /\ Goto(c, "write")
  /\ UNCHANGED << memory, message, executable, listing >>

(* Its throws: no target and no file, and, once the file is truncated, a   *)
(* target that cannot emit objects.                                        *)
FailToEmit(c) ==
  /\ pc[c] = "emit" \/ (pc[c] = "write" /\ written[c] = 0)
  /\ Throw(c)
  /\ UNCHANGED files

(* A write at the stream's own offset; what lies before it is not moved.   *)
WriteAt(file, offset, block) ==
  [i \in 1 .. (IF offset > Len(file) THEN offset ELSE Len(file)) |->
     IF i = offset THEN block ELSE IF i <= Len(file) THEN file[i] ELSE Hole]

(* Faulty: one block too many.                                             *)
WriteBlockTooMany(c) ==
  /\ pc[c] = "write"
  /\ IF written[c] <= Blocks[text[c]]
     THEN /\ written' = [written EXCEPT ![c] = @ + 1]
          /\ object' = WriteAt(object, written[c] + 1, text[c])
          /\ UNCHANGED pc
     ELSE Goto(c, "link") /\ UNCHANGED << written, object >>
  /\ UNCHANGED << filename, output_llvm, text, message, image, disturbed,
                  executable, listing >>

WriteBlock(c) ==
  /\ pc[c] = "write"
  /\ IF written[c] < Blocks[text[c]]
     THEN /\ written' = [written EXCEPT ![c] = @ + 1]
          /\ object' = WriteAt(object, written[c] + 1, text[c])
          /\ UNCHANGED pc
     ELSE Goto(c, "link") /\ UNCHANGED << written, object >>
  /\ UNCHANGED << filename, output_llvm, text, message, image, disturbed,
                  executable, listing >>

----------------------------------------------------------------------------
(* The object of text t, with or without the rest of a longer one.         *)
HoldsObject(file, t) ==
  /\ Len(file) >= Blocks[t]
  /\ \A i \in 1 .. Blocks[t] : file[i] = t

(* link: clang reads output.o ...                                          *)
ReadObject(c) ==
  /\ \/ pc[c] = "link" /\ Goto(c, "linking")
     \/ pc[c] = "orphan_link" /\ Goto(c, "orphan_linking")
  /\ image' = [image EXCEPT ![c] = object]
  /\ UNCHANGED << filename, output_llvm, text, message, written, disturbed, files >>

(* ... and writes output, or fails, with or without removing an old one.   *)
MakesExecutable(c) == \E t \in HasMain : HoldsObject(image[c], t) /\ executable' = t
MakesNone          == executable' \in {executable, Missing}

(* Processes whose clang has written output, and another's clang since.    *)
Overwritten(c) == {d \in Compilers \ {c} : pc[d] = "linked" /\ executable' # executable}

WriteExecutable(c) ==
  /\ pc[c] = "linking"
  /\ \/ MakesExecutable(c) /\ Goto(c, "linked")
     \/ MakesNone /\ Goto(c, "link_failed")
  /\ disturbed' = [d \in Compilers |-> disturbed[d] \/ d \in Overwritten(c)]
  /\ UNCHANGED << memory, message, object, listing >>

(* The clang of a killed process; nobody hears what becomes of it.         *)
LinkOrphan(c) ==
  /\ pc[c] = "orphan_linking"
  /\ MakesExecutable(c) \/ MakesNone
  /\ Goto(c, "died")
  /\ Forget(c)
  /\ disturbed' = [d \in Compilers |-> d # c /\ (disturbed[d] \/ d \in Overwritten(c))]
  /\ UNCHANGED << message, object, listing >>

(* Faulty: nobody looks at what clang returned.                            *)
FinishLinkUnchecked(c) ==
  /\ pc[c] \in {"linked", "link_failed"}
  /\ Leave(c, "exited")
  /\ UNCHANGED << message, files >>

(* system() returns, link() throws for a clang that failed, and main ends. *)
FinishLink(c) ==
  /\ \/ pc[c] = "linked" /\ Leave(c, "exited") /\ UNCHANGED message
     \/ pc[c] = "link_failed" /\ Throw(c)
  /\ UNCHANGED files

(* The process is killed.  The clang it waits for may live on.             *)
Kill(c) ==
  /\ \/ pc[c] \in Stages /\ Leave(c, "died")
     \/ /\ \/ pc[c] = "link" /\ Goto(c, "orphan_link")
           \/ pc[c] = "linking" /\ Goto(c, "orphan_linking")
        /\ UNCHANGED << memory, disturbed >>
  /\ UNCHANGED << message, files >>

----------------------------------------------------------------------------
Compile(c) ==
  \/ ParseArguments(c) \/ ReadFile(c) \/ RunPass(c)
  \/ OpenListing(c) \/ PrintListing(c)
  \/ OpenObject(c) \/ FailToEmit(c) \/ WriteBlock(c) \/ ReadObject(c)
  \/ WriteExecutable(c) \/ LinkOrphan(c) \/ FinishLink(c)

Next == \E c \in Compilers : Call(c) \/ Compile(c) \/ Kill(c)

Spec == Init /\ [][Next]_vars

----------------------------------------------------------------------------
(* Type invariant.                                                         *)
TypeOK ==
  /\ pc \in [Compilers -> Stages \cup Orphans \cup Ended]
  /\ filename \in [Compilers -> Files \cup {NoText}]
  /\ \A c \in Compilers : pc[c] \notin Ended => filename[c] \in Files
  /\ output_llvm \in [Compilers -> BOOLEAN]
  /\ text \in [Compilers -> Texts \cup {NoText}]
  /\ \A c \in Compilers : pc[c] \notin Ended \cup {"start", "read"} => text[c] \in Texts
  /\ message \in [Compilers -> BOOLEAN]
  /\ written \in [Compilers -> Nat]
  /\ \A c \in Compilers : written[c] <= IF text[c] = NoText THEN 0 ELSE Blocks[text[c]]
  /\ image \in [Compilers -> Seq(Texts \cup {Hole})]
  /\ disturbed \in [Compilers -> BOOLEAN]
  /\ object \in Seq(Texts \cup {Hole})
  /\ executable \in {Missing} \cup Texts
  /\ listing \in [Files -> {Missing, Empty} \cup Texts]

(* Nothing of a text that a pass refuses ever reaches a file, however many *)
(* compilations run, are killed or read garbage: no pass comes after a     *)
(* throw, and every file is written after the last pass.                   *)
Clean(t) == t \in Texts => Refusal[t] = Accepted

RefusedLeaveNoTrace ==
  /\ \A i \in 1 .. Len(object) : Clean(object[i])
  /\ Clean(executable)
  /\ \A f \in Files : Clean(listing[f])

(* main() returns 0 for every exception of compile(), so all a user has is *)
(* the message: a compilation that ends without one has made output the    *)
(* program of the file it was given, unless another process came between:  *)
(* wrote output.o after it was opened and before clang read it, or had     *)
(* clang replace output before this one returned.                          *)
SilenceMeansSuccess ==
  [][\A c \in Compilers :
       pc[c] # "exited" /\ pc'[c] = "exited" /\ ~message'[c] =>
         executable' = Disk[filename[c]] \/ disturbed[c]]_vars
=============================================================================
