---------------------------- MODULE PrinterRules ----------------------------
(***************************************************************************)
(* What the printed text is for: it can be read back.  Reading knows       *)
(* nothing of visits or depth, only of parentheses.                        *)
(***************************************************************************)
EXTENDS Printer

(* A node that is being read, and the node around it.  Of a node that is   *)
(* closed only its name, its tree and the types in it are kept.            *)
Started(name, outer) ==
  [name |-> name, values |-> << >>, parts |-> << >>, outer |-> outer]

File == Started("file", << >>)

Adding(node, part) == [node EXCEPT !.parts = Append(@, part)]

(* The type printed first in a node, and what comes after it.              *)
IsTyped(node)  == node.parts # << >> /\ node.parts[1].name = "ResolvedType"
TypeRead(node) == IF IsTyped(node) THEN node.parts[1].tree ELSE NoType
Parts(node)    == IF IsTyped(node) THEN Tail(node.parts) ELSE node.parts

TreeRead(node) ==
  LET value == node.values[1]
      parts == Parts(node)
      trees == [n \in 1 .. Len(parts) |-> parts[n].tree]
  IN  CASE node.name \in LiteralTypes         -> << [kind |-> node.name, value |-> value] >>
        [] node.name = "Variable"             -> << Variable(value) >>
        [] node.name = "FunctionCall"         -> << FunctionCall(value) >>
        [] node.name = "Binary"               -> Join(value, trees[1], trees[2])
        [] node.name = "Declare"              ->
             Declare(value, IF Len(parts) = 1 THEN NoType ELSE trees[2], trees[1])
        [] node.name = "Assign"               -> Assign(value, trees[1])
        [] node.name = "Show"                 -> Show(trees[1])
        [] node.name = "Return"               -> Return(trees[1])
        [] node.name = "FunctionDeclaration"  -> Function(value, trees)
        [] node.name = "Program"              -> trees
        [] OTHER                              -> value

(* The types in it: of a program those of its functions, of a function its *)
(* own and those of its statements, of a statement its own and those of    *)
(* the nodes of its value, each in the order of their addresses.           *)
TypesRead(node) ==
  LET own   == TypeRead(node)
      parts == Parts(node)
      types == [n \in 1 .. Len(parts) |-> parts[n].types]
  IN  CASE node.name = "Binary"              -> types[1] \o types[2] \o << own >>
        [] node.name \in StatementKinds      -> << own >> \o types[1]
        [] node.name = "FunctionDeclaration" -> << << own >> >> \o types
        [] node.name = "Program"             -> types
        [] OTHER                             -> << own >>

Closed(node) == [name |-> node.name, tree |-> TreeRead(node), types |-> TypesRead(node)]

(* One piece of the text, and all of it.                                   *)
Reading(node, piece) ==
  CASE piece.piece = "open"  -> Started(piece.name, node)
    [] piece.piece = "value" -> [node EXCEPT !.values = Append(@, piece.value)]
    [] piece.piece = "close" -> Adding(node.outer, Closed(node))
    [] OTHER                 -> node

Reads(text) ==
  LET Node[n \in 0 .. Len(text)] == IF n = 0 THEN File ELSE Reading(Node[n - 1], text[n])
  IN  Node

Read(text) == Reads(text)[Len(text)]

(* What may stand where the type of a is printed.                          *)
IsTypeOf(a, name) ==
  IF resolved_type[a] = NoType THEN name = NoType
  ELSE IsNamed(resolved_type[a], name)

(* Two trees that differ print differently: reading the text gives back    *)
(* the program, and for every node that has a type the name of that type,  *)
(* as the checker left them (README.md:57-73 shows such a text as what the *)
(* checker produces).  Only a type that nobody wrote is printed without a  *)
(* name, and only in a program whose first value begins with a call.       *)
PrintedTreeReadsBack ==
  printing = "printed" =>
    LET file == Read(output)
        read == file.parts[1]
    IN  /\ file = Adding(File, read)
        /\ read.tree = program
        /\ \A a \in Addresses(program) :
             (a \in StatementAddresses(program) => StatementAt(program, a).kind = "Declare")
               => IsTypeOf(a, read.types[a[1]][a[2] + 1][a[3] + 1])
=============================================================================
