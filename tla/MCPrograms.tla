------------------------------ MODULE MCPrograms ------------------------------
(* Small instances of the sequential programs, which share nothing: the      *)
(* cache simulator, the image program, and the two halves of the fixpoint    *)
(* library, arithmetic and conversion to text and back.  A behavior is a run *)
(* of one of them, while the variables of the others rest.                   *)
EXTENDS CacheSim, FixPoint, ImageProgram, FixHex

VARIABLES program  \* "csim", "imgproc", "arithmetic" or "text"

\* Images of two rows and columns with every difference of red, of green and of
\* blue along the diagonal, and different alphas.
Differences ==
  {[alpha |-> TRUE, width |-> 2, height |-> 2,
    bytes |-> p \o <<1>> \o [i \in 1..8 |-> i % Byte] \o q \o <<2>>] :
   p \in [1..3 -> {0, Byte - 1}], q \in [1..3 -> 0..(Byte - 1)]}

\* Images of one row or column, of even and odd sizes, square and not, and one
\* whose ellipse has products too big for an int; hardly a pixel is like another.
ImageSizes == {<<1, 1>>, <<1, 3>>, <<3, 1>>, <<2, 3>>, <<5, 4>>, <<6, 7>>, <<8, 2>>}
              \cup {<<n, n>> : n \in 2..7}
Patterns ==
  {[alpha |-> a, width |-> size[1], height |-> size[2],
    bytes |-> [i \in 1..((IF a THEN 4 ELSE 3) * size[1] * size[2]) |->
                 (i * i + i \div 3) % Byte]] : a \in BOOLEAN, size \in ImageSizes}

TestFiles == Differences \cup Patterns

\* The programs that do not run.
CacheRests == config = (CHOOSE c \in Commands : Accepted(c)) /\ Init
ImageRests == /\ step = "rests" /\ build = "" /\ little = FALSE /\ name = "" /\ file = 0
              /\ input = 0 /\ output = 0 /\ written = 0
              /\ status = "running" /\ fault = FALSE
ArithmeticRests == val = [p \in Pointers |-> Zero] /\ FixInit
TextRests == textStep = "rests" /\ number = 0 /\ text = 0 /\ ok = FALSE /\ origin = 0

ProgramsInit ==
  \/ program = "csim" /\ Init /\ ImageRests /\ ArithmeticRests /\ TextRests
  \/ program = "imgproc" /\ CacheRests /\ ImageInit /\ ArithmeticRests /\ TextRests
  \/ program = "arithmetic" /\ CacheRests /\ ImageRests /\ FixInit /\ TextRests
  \/ program = "text" /\ CacheRests /\ ImageRests /\ ArithmeticRests /\ HexInit

ProgramsNext ==
  \/ /\ program = "csim" /\ Next
     /\ UNCHANGED <<program, imageVars, fixVars, hexVars>>
  \/ /\ program = "imgproc" /\ ImageNext
     /\ UNCHANGED <<program, vars, fixVars, hexVars>>
  \/ /\ program = "arithmetic" /\ FixNext
     /\ UNCHANGED <<program, vars, imageVars, hexVars>>
  \/ /\ program = "text" /\ HexNext
     /\ UNCHANGED <<program, vars, imageVars, fixVars>>

ProgramsSpec ==
  ProgramsInit /\ [][ProgramsNext]_<<program, vars, imageVars, fixVars, hexVars>>
===============================================================================
