----------------------------- MODULE ImageProgram -----------------------------
(***************************************************************************)
(* The image program of csf_assign02: main reads an image (image.c), makes *)
(* an output image, applies the transformation that was named              *)
(* (c_imgproc_fns.c or, in the other build, asm_imgproc_fns.S) and writes  *)
(* the output.  A file is the size of its image, whether its pixels have   *)
(* an alpha component, and their bytes, as pnglite gives and takes them; a *)
(* pixel in memory is one integer.                                         *)
(***************************************************************************)
EXTENDS Integers, Sequences

CONSTANTS Byte,  \* 256: the values of a component
          IntWord, \* 2^32: the values of an int
          Scale, \* 10000, of the ellipse
          Files  \* the images there are

Depth(f) == IF f.alpha THEN 4 ELSE 3

\* What the code relies on: twice the scale is far from the bound of an int, and
\* an image has pixels, each with all of its components.
ImageParameters ==
  /\ Byte \in Nat \ {0} /\ IntWord \in Nat \ {0} /\ Scale \in Nat \ {0}
  /\ 2 * Scale < IntWord \div 2
  /\ \A f \in Files :
       /\ f.alpha \in BOOLEAN /\ f.width \in Nat \ {0} /\ f.height \in Nat \ {0}
       /\ f.bytes \in [1..(f.width * f.height * Depth(f)) -> 0..(Byte - 1)]

ASSUME ImageAssumption == ImageParameters

VARIABLES step,     \* of main: "read", "create", "apply", "write" or "done"
          build,    \* "c_imgproc" or "asm_imgproc"
          little,   \* is_little_endian
          name,     \* the transformation that was asked for
          file,     \* the input file
          input,    \* the images in memory
          output,
          written,  \* the output file
          status,   \* how main ended
          fault     \* history: whether a call of the system or of pnglite failed

imageVars == <<step, build, little, name, file, input, output, written, status, fault>>

Nothing == [width |-> 0, height |-> 0]
Damaged == [width |-> 0, height |-> 1]  \* a file that was opened, but is not all there
Black == Byte - 1                       \* 0x000000FF, which is opaque

Transformations == {"complement", "transpose", "ellipse", "emboss"}

Pixels(img) == 0..(img.width * img.height - 1)

ImageInit ==
  /\ step = "read"
  /\ build \in {"c_imgproc", "asm_imgproc"}
  /\ little \in BOOLEAN
  /\ build = "asm_imgproc" => little  \* the machines it is for
  /\ name \in Transformations \cup {"rgb", "other"}
  /\ file \in Files
  /\ input = Nothing /\ output = Nothing /\ written = Nothing
  /\ status = "running" /\ fault = FALSE

------------------------------------------------------------------------------
(* Pixels, as words and as bytes in memory *)

get_r(pixel) == (pixel \div (Byte * Byte * Byte)) % Byte
get_g(pixel) == (pixel \div (Byte * Byte)) % Byte
get_b(pixel) == (pixel \div Byte) % Byte
get_a(pixel) == pixel % Byte

Rgba(r, g, b, a) == r * (Byte * Byte * Byte) + g * (Byte * Byte) + b * Byte + a

\* The word in four bytes of memory, and the bytes of a word.
Load(p) == IF little THEN Rgba(p[4], p[3], p[2], p[1]) ELSE Rgba(p[1], p[2], p[3], p[4])
Store(w) == IF little THEN <<get_a(w), get_b(w), get_g(w), get_r(w)>>
            ELSE <<get_r(w), get_g(w), get_b(w), get_a(w)>>

byteswap(w) == LET p == Store(w) IN Rgba(p[1], p[2], p[3], p[4])

------------------------------------------------------------------------------
(* The transformations: from the input's data to the output's *)

Negated(c) == Byte - 1 - c  \* ~c & 0xFF

complement(in) ==
  [i \in Pixels(in) |-> Rgba(Negated(get_r(in.data[i])), Negated(get_g(in.data[i])),
                             Negated(get_b(in.data[i])), get_a(in.data[i]))]

\* Only for in.height = in.width.
transpose(in) ==
  [i \in Pixels(in) |-> in.data[(i % in.height) * in.width + i \div in.height]]

\* What is left of n in an int, and the quotient of two ints.
ToInt(n) == ((n + IntWord \div 2) % IntWord) - IntWord \div 2
abs(n) == IF n < 0 THEN -n ELSE n
Quotient(m, n) ==
  LET q == abs(m) \div abs(n) IN IF (m < 0) = (n < 0) THEN q ELSE -q

HalfWidth(in) == in.width \div 2
HalfHeight(in) == in.height \div 2

IsInside(in, x, y) ==
  ToInt(Quotient(ToInt(ToInt(Scale * x) * x), ToInt(HalfWidth(in) * HalfWidth(in)))
      + Quotient(ToInt(ToInt(Scale * y) * y), ToInt(HalfHeight(in) * HalfHeight(in)))) <= Scale

ellipse(in) ==
  [i \in Pixels(in) |->
     IF IsInside(in, (i % in.width) - HalfWidth(in), (i \div in.width) - HalfHeight(in))
     THEN in.data[i] ELSE Black]

\* The divisor is 0, which ends the process.
DividesByZero(in) == \/ ToInt(HalfWidth(in) * HalfWidth(in)) = 0
                     \/ ToInt(HalfHeight(in) * HalfHeight(in)) = 0

\* Bug: blue goes before red and green.
LargestLast(r, g, b) ==
  LET rg == IF abs(g) > abs(r) THEN g ELSE r
  IN  IF abs(b) >= abs(rg) THEN b ELSE rg

\* The further conditions of the code, for differences of one size, never hold.
Largest(r, g, b) ==
  LET rg == IF abs(g) > abs(r) THEN g ELSE r
  IN  IF abs(b) > abs(rg) THEN b ELSE rg

Clamped(gray) == IF gray < 0 THEN 0 ELSE IF gray > Byte - 1 THEN Byte - 1 ELSE gray

emboss_gray(p, upperleft) ==
  Clamped(Byte \div 2 + Largest(get_r(upperleft) - get_r(p), get_g(upperleft) - get_g(p),
                                get_b(upperleft) - get_b(p)))

emboss(in) ==
  [i \in Pixels(in) |->
     LET gray == IF i \div in.width = 0 \/ i % in.width = 0 THEN Byte \div 2
                 ELSE emboss_gray(in.data[i], in.data[i - in.width - 1])
     IN  Rgba(gray, gray, gray, get_a(in.data[i]))]

------------------------------------------------------------------------------
(* The transformations in assembly *)

\* Components are inverted by an exclusive or.
asm_complement(in) == complement(in)
asm_transpose(in) == transpose(in)

\* The square is taken first, and then Scale times it.
AsmTerm(x, half) == Quotient(ToInt(ToInt(x * x) * Scale), ToInt(half * half))
AsmIsInside(in, x, y) ==
  ToInt(AsmTerm(x, HalfWidth(in)) + AsmTerm(y, HalfHeight(in))) <= Scale

asm_ellipse(in) ==
  [i \in Pixels(in) |->
     IF AsmIsInside(in, (i % in.width) - HalfWidth(in), (i \div in.width) - HalfHeight(in))
     THEN in.data[i] ELSE Black]

\* Bug: jl where jle should be, so that the later color wins.
JumpsIfLess(size, than) == size < than
\* A jump over the instructions that take another color's difference.
JumpsIfLessOrEqual(size, than) == size <= than

Bigger(diff, of) == IF JumpsIfLessOrEqual(abs(of), abs(diff)) THEN diff ELSE of

asm_emboss_gray(p, upperleft) ==
  Clamped(Byte \div 2 + Bigger(Bigger(get_r(upperleft) - get_r(p),
                                      get_g(upperleft) - get_g(p)),
                               get_b(upperleft) - get_b(p)))

asm_emboss(in) ==
  [i \in Pixels(in) |->
     LET row == i \div in.width
         col == i % in.width
         gray == IF row = 0 \/ col = 0 THEN Byte \div 2
                 ELSE asm_emboss_gray(in.data[i], in.data[(row - 1) * in.width + col - 1])
     IN  Rgba(gray, gray, gray, get_a(in.data[i]))]

------------------------------------------------------------------------------
(* main *)

Fails == step' = "done" /\ status' = "failure"

\* img_read does not open, decode or allow the file; when it finds no memory, it
\* does not notice and crashes.
ReadFails ==
  /\ step = "read"
  /\ step' = "done" /\ status' \in {"failure", "crash"}
  /\ fault' = TRUE
  /\ UNCHANGED <<build, little, name, file, input, output, written>>

Bytes(f, i) == [k \in 1..Depth(f) |-> f.bytes[i * Depth(f) + k]]

\* A pixel of img_read: put together from three bytes, or a word that was read
\* and, on a little endian machine, swapped.
PixelOf(f, i) ==
  LET p == Bytes(f, i) IN
  IF ~f.alpha THEN Rgba(p[1], p[2], p[3], Byte - 1)
  ELSE IF little THEN byteswap(Load(p)) ELSE Load(p)

Read ==
  /\ step = "read"
  /\ input' = [width |-> file.width, height |-> file.height,
               data |-> [i \in Pixels(file) |-> PixelOf(file, i)]]
  /\ step' = "create"
  /\ UNCHANGED <<build, little, name, file, output, written, status, fault>>

CreateFails ==
  /\ step = "create"
  /\ Fails /\ fault' = TRUE
  /\ UNCHANGED <<build, little, name, file, input, output, written>>

\* create_output_img and img_init.
Create ==
  /\ step = "create"
  /\ LET by == IF name = "rgb" THEN 2 ELSE 1
         size == [width |-> by * input.width, height |-> by * input.height]
     IN  output' = [width |-> size.width, height |-> size.height,
                    data |-> [i \in Pixels(size) |-> Black]]
  /\ step' = "apply"
  /\ UNCHANGED <<build, little, name, file, input, written, status, fault>>

\* Bug: the sizes are not compared.
IsUnknown == name \notin Transformations
\* A name that is not in the table, or a transposition of an image that is not
\* square.
IsRefused == \/ name \notin Transformations
             \/ name = "transpose" /\ input.width # input.height

ApplyFails ==
  /\ step = "apply"
  /\ IsRefused
  /\ Fails
  /\ UNCHANGED <<build, little, name, file, input, output, written, fault>>

Crashes ==
  /\ step = "apply"
  /\ name = "ellipse" /\ DividesByZero(input)
  /\ step' = "done" /\ status' = "crash"
  /\ UNCHANGED <<build, little, name, file, input, output, written, fault>>

InC == CASE name = "complement" -> complement(input)
         [] name = "transpose"  -> transpose(input)
         [] name = "ellipse"    -> ellipse(input)
         [] name = "emboss"     -> emboss(input)

InAssembly == CASE name = "complement" -> asm_complement(input)
                [] name = "transpose"  -> asm_transpose(input)
                [] name = "ellipse"    -> asm_ellipse(input)
                [] name = "emboss"     -> asm_emboss(input)

Transformed == IF build = "c_imgproc" THEN InC ELSE InAssembly

Apply ==
  /\ step = "apply"
  /\ ~IsRefused
  /\ name = "ellipse" => ~DividesByZero(input)
  /\ output' = [output EXCEPT !.data = Transformed]
  /\ step' = "write"
  /\ UNCHANGED <<build, little, name, file, input, written, status, fault>>

\* The output file cannot be opened.
OpenFails ==
  /\ step = "write"
  /\ Fails /\ fault' = TRUE
  /\ UNCHANGED <<build, little, name, file, input, output, written>>

\* There is no memory for the words in the order that is written.
CopyFails ==
  /\ step = "write" /\ little
  /\ written' = Damaged
  /\ Fails /\ fault' = TRUE
  /\ UNCHANGED <<build, little, name, file, input, output>>

\* png_set_data and png_write_idats do not look whether they got the memory they
\* asked for.
WriteCrashes ==
  /\ step = "write"
  /\ written' = Damaged
  /\ step' = "done" /\ status' = "crash" /\ fault' = TRUE
  /\ UNCHANGED <<build, little, name, file, input, output>>

\* Nor does pnglite look at what compress, fwrite and fclose return: whatever is
\* missing in the file, png_set_data returns PNG_NO_ERROR.
WriteFallsShort ==
  /\ step = "write"
  /\ written' = Damaged
  /\ step' = "done" /\ status' = "success" /\ fault' = TRUE
  /\ UNCHANGED <<build, little, name, file, input, output>>

\* Bug: the words are written as they are.
WordToWriteAsIs(w) == w
\* The word that is written for a pixel.
WordToWrite(w) == IF little THEN byteswap(w) ELSE w

WriteImage ==
  /\ step = "write"
  /\ written' = [width |-> output.width, height |-> output.height, alpha |-> TRUE,
                 bytes |-> [n \in 1..(4 * output.width * output.height) |->
                              Store(WordToWrite(output.data[(n - 1) \div 4]))[((n - 1) % 4) + 1]]]
  /\ step' = "done" /\ status' = "success"
  /\ UNCHANGED <<build, little, name, file, input, output, fault>>

ImageNext ==
  ReadFails \/ Read \/ CreateFails \/ Create \/ ApplyFails \/ Crashes \/ Apply
  \/ OpenFails \/ CopyFails \/ WriteCrashes \/ WriteFallsShort \/ WriteImage

ImageSpec == ImageInit /\ [][ImageNext]_imageVars

------------------------------------------------------------------------------
(* What imgproc.h says *)

\* Component c (red, green, blue, alpha) of the pixel of a file at a row and a
\* column; pixels without an alpha component are opaque.
At(f, row, col, c) ==
  IF c > Depth(f) THEN Byte - 1 ELSE f.bytes[(row * f.width + col) * Depth(f) + c]

Square(x) == x * x

\* The formula for the ellipse, in numbers without bounds.
DocumentedInside(row, col) ==
  LET a == file.width \div 2
      b == file.height \div 2
  IN  (Scale * Square(col - a)) \div Square(a) + (Scale * Square(row - b)) \div Square(b) <= Scale

\* The difference of the largest size; red before green before blue.
DocumentedGray(row, col) ==
  LET diff == [c \in 1..3 |-> At(file, row - 1, col - 1, c) - At(file, row, col, c)]
      largest == CHOOSE c \in 1..3 :
                   /\ \A d \in 1..3 : abs(diff[d]) <= abs(diff[c])
                   /\ \A d \in 1..(c - 1) : abs(diff[d]) < abs(diff[c])
  IN  Clamped(Byte \div 2 + diff[largest])

Documented(row, col, c) ==
  CASE name = "complement" -> IF c = 4 THEN At(file, row, col, c)
                              ELSE Byte - 1 - At(file, row, col, c)
    [] name = "transpose"  -> At(file, col, row, c)
    [] name = "ellipse"    -> IF DocumentedInside(row, col) THEN At(file, row, col, c)
                              ELSE IF c = 4 THEN Byte - 1 ELSE 0
    [] name = "emboss"     -> IF c = 4 THEN At(file, row, col, c)
                              ELSE IF row = 0 \/ col = 0 THEN Byte \div 2
                              ELSE DocumentedGray(row, col)

\* No product of the ellipse is too big for an int: with the constants of the
\* code, images of at most 927 by 927 pixels.
IsSmall ==
  \A half \in {HalfWidth(file), HalfHeight(file)} : Scale * Square(half) < IntWord \div 2

\* Every byte of an output file is the one that imgproc.h tells for the bytes of
\* the input file, in both builds, on machines of either byte order and for
\* input with and without an alpha component.  There are two exceptions: ellipses
\* in bigger images, where the products overflow; and files that could not be
\* written to their end, for which img_write returns IMG_SUCCESS all the same
\* (image.h: "IMG_SUCCESS if successful, otherwise one of the IMG_ERR_* values").
WritesAsDocumented ==
  status = "success" /\ ~fault /\ (name = "ellipse" => IsSmall) =>
    /\ written.width = file.width /\ written.height = file.height
    /\ \A row \in 0..(file.height - 1), col \in 0..(file.width - 1), c \in 1..4 :
         At(written, row, col, c) = Documented(row, col, c)

\* A run that fails for no fault of the system was one for an unknown
\* transformation, or a transposition of an image that is not square, and wrote
\* nothing; an ellipse in an image of one row or one column, and no other that
\* is small enough, has a radius of 0 and crashes.
FailsAsDocumented ==
  step = "done" /\ ~fault =>
    /\ status = "failure" <=>
         name \notin Transformations \/ (name = "transpose" /\ file.width # file.height)
    /\ status # "success" => written = Nothing
    /\ name = "ellipse" /\ IsSmall
         => (status = "crash" <=> file.width = 1 \/ file.height = 1)
===============================================================================
