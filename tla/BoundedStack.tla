---------------------------- MODULE BoundedStack ----------------------------
(***************************************************************************)
(* What the stack promises to the program: last in, first out, for the     *)
(* Capacity bytes pushed last.  A push beyond that loses the oldest; a     *)
(* pull from an empty stack yields any byte; the program may overwrite an  *)
(* entry where it is, or move the stack away and know nothing of the new   *)
(* one.  StackDiscipline shows that the CPU keeps the promise.             *)
(***************************************************************************)
EXTENDS Bytes, Sequences

CONSTANT Capacity   \* at least 1

VARIABLES
  contents,   \* the bytes on the stack, newest last
  last        \* the operation done last: its name and the bytes it moved, in the
              \* order in which they were pushed or pulled

stackVars == <<contents, last>>

Smaller(m, n) == IF m < n THEN m ELSE n

Newest(s, n)  == SubSeq(s, Len(s) + 1 - Smaller(n, Len(s)), Len(s))
Dropped(s, n) == SubSeq(s, 1, Len(s) - Smaller(n, Len(s)))

Operation(op, moved) == [op |-> op, moved |-> moved]

Init == contents = <<>> /\ last = Operation("none", <<>>)

Push == /\ last'.op = "push"
        /\ last'.moved \in Seq(Byte)
        /\ contents' = Newest(contents \o last'.moved, Capacity)

\* Entries come back newest first; what is pulled from below the last is arbitrary.
Pull == /\ last'.op = "pull"
        /\ last'.moved \in Seq(Byte)
        /\ \A i \in 1..Smaller(Len(last'.moved), Len(contents)) :
             last'.moved[i] = contents[Len(contents) + 1 - i]
        /\ contents' = Dropped(contents, Len(last'.moved))

\* A store changes one entry at most.
Store == /\ last'.op = "store"
         /\ \/ UNCHANGED contents
            \/ \E i \in DOMAIN contents : contents' = [contents EXCEPT ![i] = last'.moved[1]]

Move == last' = Operation("move", <<>>) /\ contents' = <<>>

None == last' = Operation("none", <<>>) /\ UNCHANGED contents

Next == Push \/ Pull \/ Store \/ Move \/ None

Spec == Init /\ [][Next]_stackVars
=============================================================================
