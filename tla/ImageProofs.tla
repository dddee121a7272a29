------------------------------ MODULE ImageProofs ------------------------------
(***************************************************************************)
(* Proofs about the image program, for images of any size, components and  *)
(* ints of any width, both builds and both byte orders.  A pixel is known  *)
(* by its components; that a word is put together from them, swapped,      *)
(* taken apart and stored again loses none of them is arithmetic of        *)
(* numbers with four digits of base Byte.                                  *)
(***************************************************************************)
EXTENDS ImageProgram, TLAPS

------------------------------------------------------------------------------
(* Arithmetic *)

LEMMA Monotonic ==
  ASSUME NEW m \in Int, NEW n \in Int, m <= n, NEW k \in Nat
  PROVE  m * k <= n * k
OBVIOUS

LEMMA Distributes ==
  ASSUME NEW m \in Int, NEW n \in Int, NEW k \in Int
  PROVE  (m + n) * k = m * k + n * k
OBVIOUS

\* Whatever has the form of quotient and rest is that.
LEMMA DivModUnique ==
  ASSUME NEW b \in Nat, b >= 1, NEW q \in Int, NEW r \in 0..(b - 1)
  PROVE  (q * b + r) \div b = q /\ (q * b + r) % b = r
OBVIOUS

\* A quotient of one digit and a rest make a number of two.
LEMMA TwoDigits ==
  ASSUME NEW b \in Nat, NEW m \in Nat, NEW q \in 0..(m - 1), NEW r \in 0..(b - 1)
  PROVE  q * b + r \in 0..(m * b - 1)
<1>1. (q + 1) * b <= m * b
  BY Monotonic
<1>2. (q + 1) * b = q * b + b
  BY Distributes
<1>3. q * b \in Nat /\ m * b \in Int
  OBVIOUS
<1> QED
  BY <1>1, <1>2, <1>3

------------------------------------------------------------------------------
(* Pixels *)

Component == 0..(Byte - 1)
Color(p) == Rgba(p[1], p[2], p[3], p[4])

\* The components of a word are those it was made of.
LEMMA ComponentsOfWord ==
  ASSUME ImageParameters,
         NEW r \in Component, NEW g \in Component,
         NEW b \in Component, NEW a \in Component
  PROVE  /\ Rgba(r, g, b, a) \in Nat
         /\ get_r(Rgba(r, g, b, a)) = r
         /\ get_g(Rgba(r, g, b, a)) = g
         /\ get_b(Rgba(r, g, b, a)) = b
         /\ get_a(Rgba(r, g, b, a)) = a
<1> DEFINE B2 == Byte * Byte
           B3 == Byte * Byte * Byte
           low == b * Byte + a
           lower == g * B2 + low
           w == Rgba(r, g, b, a)
<1>1. Byte \in Nat /\ Byte >= 1 /\ r \in Nat /\ g \in Nat /\ b \in Nat /\ a \in Nat
  BY DEF ImageParameters, Component
<1>2. B2 \in Nat /\ B2 >= 1
  BY <1>1, Monotonic
<1>3. B3 \in Nat /\ B3 >= 1 /\ B3 = Byte * B2
  BY <1>1, <1>2, Monotonic
<1>4. low \in 0..(B2 - 1)
  BY <1>1, TwoDigits DEF Component
<1>5. lower \in 0..(B3 - 1)
  <2> HIDE DEF low, B2, B3
  <2> QED
    BY <1>1, <1>2, <1>3, <1>4, TwoDigits DEF Component
<1>6. w = r * B3 + lower
  BY <1>1 DEF Rgba
<1>7. w = (r * Byte + g) * B2 + low
  BY <1>1 DEF Rgba
<1>8. w = ((r * Byte + g) * Byte + b) * Byte + a
  BY <1>1 DEF Rgba
<1>9. r * Byte + g \in Int /\ (r * Byte + g) * Byte + b \in Int
  BY <1>1
<1>10. w \in Nat
  <2> HIDE DEF B3, lower, w
  <2> QED
    BY <1>1, <1>3, <1>5, <1>6
<1>11. w \div B3 = r /\ w \div B2 = r * Byte + g /\ w \div Byte = (r * Byte + g) * Byte + b
       /\ w % Byte = a
  <2>1. w \div B3 = r
    <3> HIDE DEF B3, lower, w
    <3> QED
      BY <1>1, <1>3, <1>5, <1>6, DivModUnique
  <2>2. w \div B2 = r * Byte + g
    <3> HIDE DEF B2, low, w
    <3> QED
      BY <1>2, <1>4, <1>7, <1>9, DivModUnique
  <2>3. w \div Byte = (r * Byte + g) * Byte + b /\ w % Byte = a
    <3> HIDE DEF w
    <3> QED
      BY <1>1, <1>8, <1>9, DivModUnique DEF Component
  <2> QED
    BY <2>1, <2>2, <2>3
<1>12. r % Byte = r /\ (r * Byte + g) % Byte = g /\ ((r * Byte + g) * Byte + b) % Byte = b
  BY <1>1, <1>9, DivModUnique DEF Component
<1> QED
  <2> HIDE DEF w
  <2>1. get_r(w) = r /\ get_g(w) = g /\ get_b(w) = b /\ get_a(w) = a
    BY <1>11, <1>12 DEF get_r, get_g, get_b, get_a
  <2> QED
    BY <1>10, <2>1 DEF w

\* A pixel that is read from the four bytes of a file, and one that is stored,
\* is the same on machines of either byte order.
LEMMA PixelsAreStored ==
  ASSUME ImageParameters, little \in BOOLEAN, NEW p \in [1..4 -> Component]
  PROVE  /\ (IF little THEN byteswap(Load(p)) ELSE Load(p)) = Color(p)
         /\ \A k \in 1..4 : Store(WordToWrite(Color(p)))[k] = p[k]
<1>1. p[1] \in Component /\ p[2] \in Component /\ p[3] \in Component /\ p[4] \in Component
  OBVIOUS
<1> DEFINE w == Rgba(p[1], p[2], p[3], p[4])
           v == Rgba(p[4], p[3], p[2], p[1])
<1>2. get_r(w) = p[1] /\ get_g(w) = p[2] /\ get_b(w) = p[3] /\ get_a(w) = p[4]
  BY <1>1, ComponentsOfWord
<1>3. get_r(v) = p[4] /\ get_g(v) = p[3] /\ get_b(v) = p[2] /\ get_a(v) = p[1]
  BY <1>1, ComponentsOfWord
<1> HIDE DEF w, v
<1>4. CASE little
  <2>1. Store(w) = <<p[4], p[3], p[2], p[1]>> /\ Store(v) = <<p[1], p[2], p[3], p[4]>>
    BY <1>2, <1>3, <1>4 DEF Store
  <2>2. byteswap(w) = v /\ byteswap(v) = w
    BY <2>1 DEF byteswap, w, v
  <2>3. Load(p) = v
    BY <1>4 DEF Load, v
  <2>4. Color(p) = w
    BY DEF Color, w
  <2> QED
    BY <1>4, <2>1, <2>2, <2>3, <2>4 DEF WordToWrite
<1>5. CASE ~little
  <2>1. Store(w) = <<p[1], p[2], p[3], p[4]>>
    BY <1>2, <1>5 DEF Store
  <2>2. Load(p) = w /\ Color(p) = w
    BY <1>5 DEF Load, Color, w
  <2> QED
    BY <1>5, <2>1, <2>2 DEF WordToWrite
<1> QED
  BY <1>4, <1>5

------------------------------------------------------------------------------
(* Files and the image that is read from one *)

\* The components of pixel i of a file.
PixelIn(f, i) ==
  [c \in 1..4 |-> IF c > Depth(f) THEN Byte - 1 ELSE f.bytes[i * Depth(f) + c]]

ImageOf(f) ==
  [width |-> f.width, height |-> f.height,
   data |-> [i \in Pixels(f) |-> Color(PixelIn(f, i))]]

LEMMA PixelInHasComponents ==
  ASSUME ImageParameters, NEW f \in Files, NEW i \in Pixels(f)
  PROVE  PixelIn(f, i) \in [1..4 -> Component]
<1> DEFINE n == f.width * f.height
           d == Depth(f)
<1>1. Byte \in Nat /\ Byte >= 1 /\ f.width \in Nat /\ f.height \in Nat
      /\ f.bytes \in [1..(n * d) -> Component]
  BY DEF ImageParameters, Component
<1>2. n \in Nat /\ d \in {3, 4} /\ i \in 0..(n - 1)
  BY <1>1 DEF Depth, Pixels
<1> HIDE DEF n, d
<1>3. ASSUME NEW c \in 1..4, c <= d
      PROVE  f.bytes[i * d + c] \in Component
  <2>1. i * d + (c - 1) \in 0..(n * d - 1)
    BY <1>2, <1>3, TwoDigits
  <2>2. i * d + (c - 1) = i * d + c - 1 /\ i * d \in Int /\ n * d \in Int
    BY <1>2
  <2>3. i * d + c \in 1..(n * d)
    BY <2>1, <2>2
  <2> QED
    BY <1>1, <2>3
<1>4. Byte - 1 \in Component
  BY <1>1 DEF Component
<1>5. PixelIn(f, i) = [c \in 1..4 |-> IF c > d THEN Byte - 1 ELSE f.bytes[i * d + c]]
  BY DEF PixelIn, d
<1>6. ASSUME NEW c \in 1..4
      PROVE  (IF c > d THEN Byte - 1 ELSE f.bytes[i * d + c]) \in Component
  BY <1>2, <1>3, <1>4
<1> QED
  BY <1>5, <1>6

\* img_read puts the components of each pixel together.
LEMMA PixelIsRead ==
  ASSUME ImageParameters, little \in BOOLEAN, NEW f \in Files, NEW i \in Pixels(f)
  PROVE  PixelOf(f, i) = Color(PixelIn(f, i))
<1> DEFINE p == PixelIn(f, i)
           q == Bytes(f, i)
<1>1. p \in [1..4 -> Component]
  BY PixelInHasComponents
<1>2. CASE f.alpha
  <2>1. Depth(f) = 4
    BY <1>2 DEF Depth
  <2>2. q = p
    BY <2>1 DEF Bytes, PixelIn
  <2> HIDE DEF p, q
  <2>3. PixelOf(f, i) = IF little THEN byteswap(Load(q)) ELSE Load(q)
    BY <1>2 DEF PixelOf, q
  <2> QED
    BY <1>1, <2>2, <2>3, PixelsAreStored DEF p
<1>3. CASE ~f.alpha
  <2>1. Depth(f) = 3
    BY <1>3 DEF Depth
  <2>2. p[1] = q[1] /\ p[2] = q[2] /\ p[3] = q[3] /\ p[4] = Byte - 1
    BY <2>1 DEF Bytes, PixelIn
  <2> HIDE DEF p, q
  <2>3. PixelOf(f, i) = Rgba(q[1], q[2], q[3], Byte - 1)
    BY <1>3 DEF PixelOf, q
  <2>4. Color(p) = Rgba(q[1], q[2], q[3], Byte - 1)
    BY <2>2 DEF Color
  <2> QED
    BY <2>3, <2>4 DEF p
<1> QED
  BY <1>2, <1>3

\* A row and a column make an index, and an index is made of these.
LEMMA RowAndColumn ==
  ASSUME NEW width \in Nat, NEW height \in Nat,
         NEW row \in 0..(height - 1), NEW col \in 0..(width - 1)
  PROVE  /\ row * width + col \in 0..(width * height - 1)
         /\ (row * width + col) \div width = row
         /\ (row * width + col) % width = col
<1>1. width >= 1 /\ row \in Int
  OBVIOUS
<1>2. row * width + col \in 0..(height * width - 1)
  BY TwoDigits
<1>3. height * width = width * height
  OBVIOUS
<1> QED
  BY <1>1, <1>2, <1>3, DivModUnique

\* The pixel of a file at a row and a column.
PixelAt(row, col) == PixelIn(file, row * file.width + col)

\* What the lemmas about transformations are about: the image of a file is in
\* memory, and one of its pixels is looked at.
LooksAt(row, col) ==
  /\ file \in Files /\ input = ImageOf(file)
  /\ row \in 0..(file.height - 1) /\ col \in 0..(file.width - 1)

LEMMA Indexed ==
  ASSUME ImageParameters, NEW row, NEW col, LooksAt(row, col)
  PROVE  LET i == row * file.width + col IN
         /\ i \in Pixels(file) /\ i \in Pixels(input)
         /\ i \div file.width = row /\ i % file.width = col
         /\ input.width = file.width /\ input.height = file.height
         /\ input.data[i] = Color(PixelAt(row, col))
         /\ PixelAt(row, col) \in [1..4 -> Component]
         /\ \A c \in 1..4 : PixelAt(row, col)[c] = At(file, row, col, c)
<1> DEFINE i == row * file.width + col
<1>1. file.width \in Nat /\ file.height \in Nat
      /\ row \in 0..(file.height - 1) /\ col \in 0..(file.width - 1)
  BY DEF ImageParameters, LooksAt
<1>2. i \in 0..(file.width * file.height - 1) /\ i \div file.width = row
      /\ i % file.width = col
  BY <1>1, RowAndColumn
<1> HIDE DEF i
<1>3. i \in Pixels(file)
  BY <1>2 DEF Pixels
<1>4. /\ input.width = file.width /\ input.height = file.height
      /\ input.data = [j \in Pixels(file) |-> Color(PixelIn(file, j))]
  BY DEF LooksAt, ImageOf
<1>5. i \in Pixels(input)
  BY <1>3, <1>4 DEF Pixels
<1>6. PixelAt(row, col) = PixelIn(file, i)
  BY DEF PixelAt, i
<1>7. PixelIn(file, i) \in [1..4 -> Component]
  BY <1>3, PixelInHasComponents DEF LooksAt
<1>8. \A c \in 1..4 : PixelAt(row, col)[c] = At(file, row, col, c)
  BY <1>6 DEF PixelIn, At, i
<1> QED
  BY <1>2, <1>3, <1>4, <1>5, <1>6, <1>7, <1>8 DEF i

------------------------------------------------------------------------------
(* Complement and transposition *)

\* The components that imgproc.h tells for the pixel at a row and a column.
DocumentedAt(row, col) == [c \in 1..4 |-> Documented(row, col, c)]

LEMMA ComplementAsDocumented ==
  ASSUME ImageParameters, NEW row, NEW col, LooksAt(row, col), name = "complement"
  PROVE  /\ complement(input)[row * file.width + col] = Color(DocumentedAt(row, col))
         /\ DocumentedAt(row, col) \in [1..4 -> Component]
<1> DEFINE p == PixelAt(row, col)
           i == row * file.width + col
           w == input.data[i]
<1>1. /\ i \in Pixels(input) /\ w = Color(p) /\ p \in [1..4 -> Component]
      /\ \A c \in 1..4 : p[c] = At(file, row, col, c)
  BY Indexed
<1>2. DocumentedAt(row, col)
        = [c \in 1..4 |-> IF c = 4 THEN At(file, row, col, c)
                          ELSE Byte - 1 - At(file, row, col, c)]
  BY DEF DocumentedAt, Documented
<1> HIDE DEF p, w
<1>3. DocumentedAt(row, col) = [c \in 1..4 |-> IF c = 4 THEN p[c] ELSE Byte - 1 - p[c]]
  BY <1>1, <1>2
<1>4. \A n \in Component : Byte - 1 - n \in Component
  BY DEF ImageParameters, Component
<1>5. DocumentedAt(row, col) \in [1..4 -> Component]
  BY <1>1, <1>3, <1>4
<1>6. get_r(w) = p[1] /\ get_g(w) = p[2] /\ get_b(w) = p[3] /\ get_a(w) = p[4]
  BY <1>1, ComponentsOfWord DEF Color
<1>7. complement(input)[i]
        = Rgba(Negated(get_r(w)), Negated(get_g(w)), Negated(get_b(w)), get_a(w))
  BY <1>1 DEF complement, w
<1>8. complement(input)[i] = Rgba(Byte - 1 - p[1], Byte - 1 - p[2], Byte - 1 - p[3], p[4])
  BY <1>6, <1>7 DEF Negated
<1>9. Color(DocumentedAt(row, col))
        = Rgba(Byte - 1 - p[1], Byte - 1 - p[2], Byte - 1 - p[3], p[4])
  BY <1>3 DEF Color
<1> QED
  BY <1>5, <1>8, <1>9

LEMMA TransposeAsDocumented ==
  ASSUME ImageParameters, NEW row, NEW col, LooksAt(row, col), name = "transpose",
         input.width = input.height
  PROVE  /\ transpose(input)[row * file.width + col] = Color(DocumentedAt(row, col))
         /\ DocumentedAt(row, col) \in [1..4 -> Component]
<1> DEFINE p == PixelAt(col, row)
           i == row * file.width + col
           j == col * file.width + row
<1>1. /\ i \in Pixels(input) /\ i \div file.width = row /\ i % file.width = col
      /\ input.width = file.width /\ input.height = file.height
  BY Indexed
<1>2. LooksAt(col, row)
  BY <1>1 DEF LooksAt
<1>3. /\ j \in Pixels(input) /\ input.data[j] = Color(p) /\ p \in [1..4 -> Component]
      /\ \A c \in 1..4 : p[c] = At(file, col, row, c)
  BY <1>2, Indexed
<1> HIDE DEF p, i
<1>4. transpose(input)[i]
        = input.data[(i % input.height) * input.width + i \div input.height]
  BY <1>1 DEF transpose
<1>5. transpose(input)[i] = input.data[j]
  BY <1>1, <1>4
<1>6. DocumentedAt(row, col) = [c \in 1..4 |-> p[c]]
  BY <1>3 DEF DocumentedAt, Documented
<1>7. DocumentedAt(row, col) = p
  BY <1>3, <1>6
<1> QED
  BY <1>3, <1>5, <1>7 DEF i

------------------------------------------------------------------------------
(* Emboss *)

Gray(g, a) == Rgba(g, g, g, a)

\* The first of the largest differences is found by looking at red, at green
\* and at blue in this order.
LEMMA LargestIsFirst ==
  ASSUME NEW d \in [1..3 -> Int]
  PROVE  /\ Largest(d[1], d[2], d[3])
              = d[CHOOSE c \in 1..3 : /\ \A e \in 1..3 : abs(d[e]) <= abs(d[c])
                                      /\ \A e \in 1..(c - 1) : abs(d[e]) < abs(d[c])]
         /\ Bigger(Bigger(d[1], d[2]), d[3]) = Largest(d[1], d[2], d[3])
         /\ Largest(d[1], d[2], d[3]) \in Int
<1> DEFINE First(c) == /\ \A e \in 1..3 : abs(d[e]) <= abs(d[c])
                       /\ \A e \in 1..(c - 1) : abs(d[e]) < abs(d[c])
           m == [c \in 1..3 |-> abs(d[c])]
<1>1. m \in [1..3 -> Int] /\ \A c \in 1..3 : m[c] = abs(d[c])
  BY DEF abs
<1> HIDE DEF m
<1>2. PICK k \in 1..3 : First(k) /\ Largest(d[1], d[2], d[3]) = d[k]
  <2>1. CASE m[2] > m[1] /\ m[3] > m[2]
    <3>1. First(3)
      BY <1>1, <2>1
    <3>2. Largest(d[1], d[2], d[3]) = d[3]
      BY <1>1, <2>1 DEF Largest
    <3> QED
      BY <3>1, <3>2
  <2>2. CASE m[2] > m[1] /\ m[3] <= m[2]
    <3>1. First(2)
      BY <1>1, <2>2
    <3>2. Largest(d[1], d[2], d[3]) = d[2]
      BY <1>1, <2>2 DEF Largest
    <3> QED
      BY <3>1, <3>2
  <2>3. CASE m[2] <= m[1] /\ m[3] > m[1]
    <3>1. First(3)
      BY <1>1, <2>3
    <3>2. Largest(d[1], d[2], d[3]) = d[3]
      BY <1>1, <2>3 DEF Largest
    <3> QED
      BY <3>1, <3>2
  <2>4. CASE m[2] <= m[1] /\ m[3] <= m[1]
    <3>1. First(1)
      BY <1>1, <2>4
    <3>2. Largest(d[1], d[2], d[3]) = d[1]
      BY <1>1, <2>4 DEF Largest
    <3> QED
      BY <3>1, <3>2
  <2> QED
    BY <1>1, <2>1, <2>2, <2>3, <2>4
<1>3. \A c \in 1..3 : First(c) => c = k
  <2> SUFFICES ASSUME NEW c \in 1..3, First(c), c # k
               PROVE  FALSE
    OBVIOUS
  <2>1. m[c] <= m[k] /\ m[k] <= m[c]
    BY <1>1, <1>2
  <2>2. CASE c < k
    <3>1. c \in 1..(k - 1)
      BY <2>2
    <3> QED
      BY <1>1, <1>2, <2>1, <3>1
  <2>3. CASE k < c
    <3>1. k \in 1..(c - 1)
      BY <2>3
    <3> QED
      BY <1>1, <2>1, <3>1
  <2> QED
    BY <2>2, <2>3
<1>4. (CHOOSE c \in 1..3 : First(c)) = k
  BY <1>2, <1>3
<1>5. Bigger(Bigger(d[1], d[2]), d[3]) = Largest(d[1], d[2], d[3])
  BY <1>1 DEF Bigger, JumpsIfLessOrEqual, Largest, abs
<1> QED
  BY <1>2, <1>4, <1>5

\* The differences of the components of a pixel to its upper left neighbor's.
Differences(row, col) ==
  [c \in 1..3 |-> At(file, row - 1, col - 1, c) - At(file, row, col, c)]

LEMMA GrayAsDocumented ==
  ASSUME ImageParameters, NEW row, NEW col, LooksAt(row, col), row # 0, col # 0
  PROVE  LET p == input.data[row * file.width + col]
             q == input.data[(row - 1) * file.width + col - 1]
         IN  /\ emboss_gray(p, q) = DocumentedGray(row, col)
             /\ asm_emboss_gray(p, q) = DocumentedGray(row, col)
             /\ DocumentedGray(row, col) \in Component
<1> DEFINE r == PixelAt(row, col)
           s == PixelAt(row - 1, col - 1)
           p == input.data[row * file.width + col]
           q == input.data[(row - 1) * file.width + col - 1]
           d == Differences(row, col)
<1>1. file.width \in Nat /\ file.height \in Nat
  BY DEF ImageParameters, LooksAt
<1>2. LooksAt(row - 1, col - 1)
  BY <1>1 DEF LooksAt
<1>3. (row - 1) * file.width + (col - 1) = (row - 1) * file.width + col - 1
  <2>1. row - 1 \in Int /\ col \in Int
    BY <1>1 DEF LooksAt
  <2>2. (row - 1) * file.width \in Int
    BY <1>1, <2>1
  <2> QED
    BY <2>1, <2>2
<1>4. /\ p = Color(r) /\ r \in [1..4 -> Component]
      /\ \A c \in 1..4 : r[c] = At(file, row, col, c)
  BY Indexed
<1>5. /\ q = Color(s) /\ s \in [1..4 -> Component]
      /\ \A c \in 1..4 : s[c] = At(file, row - 1, col - 1, c)
  BY <1>2, <1>3, Indexed
<1> HIDE DEF p, q, r, s
<1>6. /\ get_r(p) = r[1] /\ get_g(p) = r[2] /\ get_b(p) = r[3]
      /\ get_r(q) = s[1] /\ get_g(q) = s[2] /\ get_b(q) = s[3]
  BY <1>4, <1>5, ComponentsOfWord DEF Color
<1>7. d = [c \in 1..3 |-> s[c] - r[c]]
  BY <1>4, <1>5 DEF Differences
<1>8. d \in [1..3 -> Int]
  BY <1>4, <1>5, <1>7 DEF ImageParameters, Component
<1>9. d[1] = s[1] - r[1] /\ d[2] = s[2] - r[2] /\ d[3] = s[3] - r[3]
  BY <1>7
<1>10. DocumentedGray(row, col) = Clamped(Byte \div 2 + Largest(d[1], d[2], d[3]))
  <2>1. DocumentedGray(row, col)
          = Clamped(Byte \div 2
              + d[CHOOSE c \in 1..3 : /\ \A e \in 1..3 : abs(d[e]) <= abs(d[c])
                                      /\ \A e \in 1..(c - 1) : abs(d[e]) < abs(d[c])])
    BY DEF DocumentedGray, Differences
  <2> HIDE DEF d
  <2> QED
    BY <1>8, <2>1, LargestIsFirst
<1> HIDE DEF d
<1>11. emboss_gray(p, q) = DocumentedGray(row, col)
  BY <1>6, <1>9, <1>10 DEF emboss_gray
<1>12. asm_emboss_gray(p, q) = DocumentedGray(row, col)
  <2>1. asm_emboss_gray(p, q) = Clamped(Byte \div 2 + Bigger(Bigger(d[1], d[2]), d[3]))
    BY <1>6, <1>9 DEF asm_emboss_gray
  <2> QED
    BY <1>8, <1>10, <2>1, LargestIsFirst
<1>13. DocumentedGray(row, col) \in Component
  <2>1. Byte \div 2 \in Int /\ Byte \in Nat /\ Byte >= 1
    BY DEF ImageParameters
  <2>2. \A n \in Int : Clamped(n) \in Component
    BY <2>1 DEF Clamped, Component
  <2> QED
    BY <1>8, <1>10, <2>1, <2>2, LargestIsFirst
<1> QED
  BY <1>11, <1>12, <1>13 DEF p, q

LEMMA EmbossAsDocumented ==
  ASSUME ImageParameters, NEW row, NEW col, LooksAt(row, col), name = "emboss"
  PROVE  /\ emboss(input)[row * file.width + col] = Color(DocumentedAt(row, col))
         /\ asm_emboss(input)[row * file.width + col] = Color(DocumentedAt(row, col))
         /\ DocumentedAt(row, col) \in [1..4 -> Component]
<1> DEFINE p == PixelAt(row, col)
           i == row * file.width + col
           g == IF row = 0 \/ col = 0 THEN Byte \div 2 ELSE DocumentedGray(row, col)
<1>1. /\ i \in Pixels(input) /\ input.width = file.width
      /\ i \div file.width = row /\ i % file.width = col
      /\ input.data[i] = Color(p) /\ p \in [1..4 -> Component]
      /\ \A c \in 1..4 : p[c] = At(file, row, col, c)
  BY Indexed
<1>2. file.width \in Nat /\ row \in Nat /\ col \in Nat
  BY DEF ImageParameters, LooksAt
<1>3. Byte \div 2 \in Component
  BY DEF ImageParameters, Component
<1>4. g \in Component
  BY <1>3, GrayAsDocumented
<1>5. DocumentedAt(row, col)
        = [c \in 1..4 |-> IF c = 4 THEN At(file, row, col, c) ELSE g]
  BY DEF DocumentedAt, Documented
<1> HIDE DEF p, g
<1>6. DocumentedAt(row, col) = [c \in 1..4 |-> IF c = 4 THEN p[4] ELSE g]
  BY <1>1, <1>5
<1>7. DocumentedAt(row, col) \in [1..4 -> Component]
  BY <1>1, <1>4, <1>6
<1>8. Color(DocumentedAt(row, col)) = Gray(g, p[4])
  BY <1>6 DEF Color, Gray
<1>9. get_a(input.data[i]) = p[4]
  BY <1>1, ComponentsOfWord DEF Color
<1>10. i - file.width - 1 = (row - 1) * file.width + col - 1
  <2>1. row * file.width = (row - 1) * file.width + file.width
    <3>1. row - 1 \in Int /\ (row - 1) + 1 = row /\ 1 * file.width = file.width
      BY <1>2
    <3>2. ((row - 1) + 1) * file.width = (row - 1) * file.width + 1 * file.width
      BY <1>2, <3>1, Distributes
    <3> QED
      BY <3>1, <3>2
  <2>2. (row - 1) * file.width \in Int
    BY <1>2
  <2> QED
    BY <1>2, <2>1, <2>2
<1> DEFINE j == (row - 1) * file.width + col - 1
<1> HIDE DEF i, j
<1>11. emboss(input)[i]
         = Gray(IF row = 0 \/ col = 0 THEN Byte \div 2
                ELSE emboss_gray(input.data[i], input.data[j]), p[4])
  BY <1>1, <1>9, <1>10 DEF emboss, Gray, j
<1>12. asm_emboss(input)[i]
         = Gray(IF row = 0 \/ col = 0 THEN Byte \div 2
                ELSE asm_emboss_gray(input.data[i], input.data[j]), p[4])
  BY <1>1, <1>9 DEF asm_emboss, Gray, j
<1>13. ASSUME row # 0, col # 0
       PROVE  /\ emboss_gray(input.data[i], input.data[j]) = DocumentedGray(row, col)
              /\ asm_emboss_gray(input.data[i], input.data[j]) = DocumentedGray(row, col)
  BY <1>13, GrayAsDocumented DEF i, j
<1>14. emboss(input)[i] = Gray(g, p[4]) /\ asm_emboss(input)[i] = Gray(g, p[4])
  BY <1>11, <1>12, <1>13 DEF g
<1> QED
  BY <1>7, <1>8, <1>14 DEF i

------------------------------------------------------------------------------
(* Ellipse *)

\* A number between the bounds of an int is kept.
LEMMA IntIsKept ==
  ASSUME ImageParameters, NEW n \in Int, -(IntWord \div 2) <= n, n < IntWord \div 2
  PROVE  ToInt(n) = n
<1> DEFINE h == IntWord \div 2
<1>1. IntWord \in Nat /\ h \in Nat /\ 2 * h <= IntWord
  BY DEF ImageParameters
<1> HIDE DEF h
<1>2. n + h \in 0..(IntWord - 1)
  BY <1>1 DEF h
<1>3. (n + h) % IntWord = n + h
  BY <1>1, <1>2
<1> QED
  BY <1>1, <1>3 DEF ToInt, h

\* For a coordinate within a radius that is small enough, no product leaves the
\* bounds of an int, whichever is taken first, and the quotient is at most Scale.
LEMMA TermIsExact ==
  ASSUME ImageParameters, NEW h \in Nat, h >= 1, Scale * Square(h) < IntWord \div 2,
         NEW x \in Int, -h <= x, x <= h
  PROVE  LET t == (Scale * Square(x)) \div Square(h) IN
         /\ ToInt(h * h) = Square(h) /\ Square(h) >= 1
         /\ Quotient(ToInt(ToInt(Scale * x) * x), ToInt(h * h)) = t
         /\ AsmTerm(x, h) = t
         /\ t \in 0..Scale
<1> DEFINE s == Square(h)
           q == Square(x)
           n == Scale * q
           half == IntWord \div 2
<1>1. Scale \in Nat /\ Scale >= 1 /\ half \in Nat
  BY DEF ImageParameters
<1>2. s \in Nat /\ s >= 1 /\ s >= h
  BY Monotonic DEF Square
<1>3. q \in Nat /\ q <= s
  <2>1. CASE x >= 0
    <3>1. x * x <= h * x /\ x * h <= h * h
      BY <2>1, Monotonic
    <3>2. x * x \in Nat /\ h * x = x * h
      BY <2>1
    <3> QED
      BY <1>2, <3>1, <3>2 DEF Square
  <2>2. CASE x < 0
    <3>1. PICK y \in Nat : y = -x
      BY <2>2
    <3>2. y <= h
      BY <3>1
    <3>3. y * y <= h * y /\ y * h <= h * h
      BY <3>2, Monotonic
    <3>4. y * y = x * x /\ h * y = y * h /\ y * y \in Nat
      BY <3>1
    <3> QED
      BY <1>2, <3>3, <3>4 DEF Square
  <2> QED
    BY <2>1, <2>2
<1>4. n \in Nat /\ n <= Scale * s /\ Scale * s < half /\ q <= n /\ s <= Scale * s
  <2>1. q * Scale <= s * Scale /\ 1 * q <= Scale * q /\ 1 * s <= Scale * s
    BY <1>1, <1>2, <1>3, Monotonic
  <2> HIDE DEF q, s
  <2> QED
    BY <1>1, <1>2, <1>3, <2>1 DEF s
<1>5. Scale * x \in Int /\ -half <= Scale * x /\ Scale * x < half
  <2>1. x * Scale <= h * Scale /\ (-h) * Scale <= x * Scale /\ h * Scale <= s * Scale
    BY <1>1, <1>2, Monotonic
  <2>2. (-h) * Scale = -(h * Scale) /\ Scale * x = x * Scale /\ Scale * s = s * Scale
        /\ x * Scale \in Int /\ h * Scale \in Int
    BY <1>1, <1>2
  <2> HIDE DEF s, half
  <2> QED
    BY <1>1, <1>2, <1>4, <2>1, <2>2
<1>6. ToInt(Scale * x) = Scale * x
  BY <1>5, IntIsKept
<1>7. (Scale * x) * x = n /\ x * x = q /\ h * h = s /\ q * Scale = n
  BY <1>1 DEF Square
<1> HIDE DEF s, q, n, half
<1>8. ToInt(n) = n /\ ToInt(q) = q /\ ToInt(s) = s
  BY <1>1, <1>2, <1>3, <1>4, IntIsKept DEF half
<1>9. Quotient(n, s) = n \div s
  BY <1>2, <1>4 DEF Quotient, abs
<1>10. n \div s \in 0..Scale
  <2>1. n \div s \in Int /\ n % s \in 0..(s - 1) /\ n = (n \div s) * s + (n % s)
    BY <1>2, <1>4
  <2>2. ASSUME n \div s <= -1
        PROVE  FALSE
    <3>1. (n \div s) * s <= (-1) * s
      BY <1>2, <2>1, <2>2, Monotonic
    <3> QED
      BY <1>2, <1>4, <2>1, <3>1
  <2>3. ASSUME n \div s >= Scale + 1
        PROVE  FALSE
    <3>1. (Scale + 1) * s <= (n \div s) * s
      <4>1. Scale + 1 \in Int /\ Scale + 1 <= n \div s
        BY <1>1, <2>1, <2>3
      <4> QED
        BY <1>2, <2>1, <4>1, Monotonic
    <3>2. (Scale + 1) * s = Scale * s + 1 * s /\ 1 * s = s
      BY <1>1, <1>2, Distributes
    <3>3. Scale * s \in Int /\ (n \div s) * s \in Int
      BY <1>1, <1>2, <2>1
    <3> QED
      BY <1>2, <1>4, <2>1, <3>1, <3>2, <3>3
  <2> QED
    BY <1>1, <2>1, <2>2, <2>3
<1>11. Quotient(ToInt(ToInt(Scale * x) * x), ToInt(h * h)) = n \div s
  BY <1>6, <1>7, <1>8, <1>9
<1>12. AsmTerm(x, h) = n \div s
  BY <1>7, <1>8, <1>9 DEF AsmTerm
<1> QED
  BY <1>2, <1>7, <1>8, <1>10, <1>11, <1>12 DEF n, s, q

\* A column, or a row, is within the radius from the center; the radius is 0
\* where there is only one.
LEMMA CoordinateIsInside ==
  ASSUME NEW size \in Nat \ {0}, NEW k \in 0..(size - 1)
  PROVE  LET h == size \div 2 IN
         h \in Nat /\ (h = 0 <=> size = 1) /\ k - h \in Int /\ -h <= k - h /\ k - h <= h
OBVIOUS

\* What stops an ellipse, as long as the image is small enough.
LEMMA ZeroRadius ==
  ASSUME ImageParameters, file \in Files, input = ImageOf(file), IsSmall
  PROVE  DividesByZero(input) <=> file.width = 1 \/ file.height = 1
<1> DEFINE a == HalfWidth(file)
           b == HalfHeight(file)
<1>1. HalfWidth(input) = a /\ HalfHeight(input) = b
  BY DEF ImageOf, HalfWidth, HalfHeight
<1>2. file.width \in Nat \ {0} /\ file.height \in Nat \ {0}
  BY DEF ImageParameters
<1>3. a \in Nat /\ b \in Nat /\ (a = 0 <=> file.width = 1) /\ (b = 0 <=> file.height = 1)
  BY <1>2 DEF HalfWidth, HalfHeight
<1>4. Scale * Square(a) < IntWord \div 2 /\ Scale * Square(b) < IntWord \div 2
  BY DEF IsSmall
<1> HIDE DEF a, b
<1>5. ASSUME NEW h \in Nat, Scale * Square(h) < IntWord \div 2
      PROVE  ToInt(h * h) = 0 <=> h = 0
  <2>1. CASE h = 0
    <3>1. h * h = 0
      BY <2>1
    <3>2. ToInt(0) = 0
      <4>1. IntWord \div 2 \in Nat /\ 0 < IntWord \div 2
        BY DEF ImageParameters
      <4> QED
        BY <4>1, IntIsKept
    <3> QED
      BY <2>1, <3>1, <3>2
  <2>2. CASE h # 0
    <3>1. 0 \in Int /\ -h <= 0 /\ 0 <= h /\ h >= 1
      BY <2>2
    <3>2. ToInt(h * h) = Square(h) /\ Square(h) >= 1
      BY <1>5, <3>1, TermIsExact
    <3> QED
      BY <2>2, <3>2
  <2> QED
    BY <2>1, <2>2
<1> QED
  BY <1>1, <1>3, <1>4, <1>5 DEF DividesByZero

LEMMA EllipseAsDocumented ==
  ASSUME ImageParameters, NEW row, NEW col, LooksAt(row, col), name = "ellipse",
         IsSmall, ~DividesByZero(input)
  PROVE  /\ ellipse(input)[row * file.width + col] = Color(DocumentedAt(row, col))
         /\ asm_ellipse(input)[row * file.width + col] = Color(DocumentedAt(row, col))
         /\ DocumentedAt(row, col) \in [1..4 -> Component]
<1> DEFINE p == PixelAt(row, col)
           i == row * file.width + col
           a == HalfWidth(file)
           b == HalfHeight(file)
           x == col - a
           y == row - b
           s == (Scale * Square(x)) \div Square(a)
           t == (Scale * Square(y)) \div Square(b)
<1>1. /\ i \in Pixels(input) /\ input.width = file.width /\ input.height = file.height
      /\ i \div file.width = row /\ i % file.width = col
      /\ input.data[i] = Color(p) /\ p \in [1..4 -> Component]
      /\ \A c \in 1..4 : p[c] = At(file, row, col, c)
  BY Indexed
<1>2. /\ file.width \in Nat \ {0} /\ file.height \in Nat \ {0}
      /\ row \in 0..(file.height - 1) /\ col \in 0..(file.width - 1)
  BY DEF ImageParameters, LooksAt
<1>3. HalfWidth(input) = a /\ HalfHeight(input) = b
  BY <1>1 DEF HalfWidth, HalfHeight
<1>4. file.width # 1 /\ file.height # 1
  BY ZeroRadius DEF LooksAt
<1>5. a \in Nat /\ a >= 1 /\ x \in Int /\ -a <= x /\ x <= a
  BY <1>2, <1>4, CoordinateIsInside DEF HalfWidth
<1>6. b \in Nat /\ b >= 1 /\ y \in Int /\ -b <= y /\ y <= b
  BY <1>2, <1>4, CoordinateIsInside DEF HalfHeight
<1>7. Scale * Square(a) < IntWord \div 2 /\ Scale * Square(b) < IntWord \div 2
  BY DEF IsSmall
<1>8. DocumentedInside(row, col) <=> s + t <= Scale
  BY DEF DocumentedInside, HalfWidth, HalfHeight
<1> HIDE DEF p, i, a, b, x, y
<1>9. /\ Quotient(ToInt(ToInt(Scale * x) * x), ToInt(a * a)) = s
      /\ AsmTerm(x, a) = s /\ s \in 0..Scale
  BY <1>5, <1>7, TermIsExact
<1>10. /\ Quotient(ToInt(ToInt(Scale * y) * y), ToInt(b * b)) = t
       /\ AsmTerm(y, b) = t /\ t \in 0..Scale
  BY <1>6, <1>7, TermIsExact
<1> HIDE DEF s, t
<1>11. ToInt(s + t) = s + t
  <2>1. Scale \in Nat /\ 2 * Scale < IntWord \div 2 /\ IntWord \div 2 \in Nat
    BY DEF ImageParameters
  <2>2. s + t \in Int /\ 0 <= s + t /\ s + t < IntWord \div 2 /\ -(IntWord \div 2) <= s + t
    BY <1>9, <1>10, <2>1
  <2> QED
    BY <2>2, IntIsKept
<1>12. IsInside(input, x, y) <=> DocumentedInside(row, col)
  BY <1>3, <1>8, <1>9, <1>10, <1>11 DEF IsInside
<1>13. AsmIsInside(input, x, y) <=> DocumentedInside(row, col)
  BY <1>3, <1>8, <1>9, <1>10, <1>11 DEF AsmIsInside
<1> DEFINE q == IF DocumentedInside(row, col) THEN Color(p) ELSE Black
<1>14. ellipse(input)[i] = q
  BY <1>1, <1>3, <1>12 DEF ellipse, x, y
<1>15. asm_ellipse(input)[i] = q
  BY <1>1, <1>3, <1>13 DEF asm_ellipse, x, y
<1>16. DocumentedAt(row, col)
         = [c \in 1..4 |-> IF DocumentedInside(row, col) THEN p[c]
                           ELSE IF c = 4 THEN Byte - 1 ELSE 0]
  BY <1>1 DEF DocumentedAt, Documented
<1>17. DocumentedAt(row, col) \in [1..4 -> Component]
  <2>1. 0 \in Component /\ Byte - 1 \in Component
    BY DEF ImageParameters, Component
  <2> QED
    BY <1>1, <1>16, <2>1
<1>18. Color(DocumentedAt(row, col)) = q
  <2>1. CASE DocumentedInside(row, col)
    BY <1>16, <2>1 DEF Color
  <2>2. CASE ~DocumentedInside(row, col)
    <3>1. Color(DocumentedAt(row, col)) = Rgba(0, 0, 0, Byte - 1)
      BY <1>16, <2>2 DEF Color
    <3>2. Rgba(0, 0, 0, Byte - 1) = Byte - 1
      BY DEF Rgba, ImageParameters
    <3> QED
      BY <2>2, <3>1, <3>2 DEF Black
  <2> QED
    BY <2>1, <2>2
<1> QED
  BY <1>14, <1>15, <1>17, <1>18 DEF i

------------------------------------------------------------------------------
(* The program *)

\* Either build computes the pixels that imgproc.h tells.
LEMMA TransformedAsDocumented ==
  ASSUME ImageParameters, NEW row, NEW col, LooksAt(row, col), ~IsRefused,
         name = "ellipse" => IsSmall /\ ~DividesByZero(input)
  PROVE  /\ Transformed[row * file.width + col] = Color(DocumentedAt(row, col))
         /\ DocumentedAt(row, col) \in [1..4 -> Component]
<1>1. name \in {"complement", "transpose", "ellipse", "emboss"}
  BY DEF IsRefused, Transformations
<1>2. CASE name = "complement"
  BY <1>2, ComplementAsDocumented DEF Transformed, InC, InAssembly, asm_complement
<1>3. CASE name = "transpose"
  <2>1. input.width = input.height
    BY <1>3 DEF IsRefused
  <2> QED
    BY <1>3, <2>1, TransposeAsDocumented DEF Transformed, InC, InAssembly, asm_transpose
<1>4. CASE name = "ellipse"
  BY <1>4, EllipseAsDocumented DEF Transformed, InC, InAssembly
<1>5. CASE name = "emboss"
  BY <1>5, EmbossAsDocumented DEF Transformed, InC, InAssembly
<1> QED
  BY <1>1, <1>2, <1>3, <1>4, <1>5

\* What is known of the images at each step of main.
ImageInv ==
  /\ file \in Files /\ little \in BOOLEAN
  /\ step # "done" => status = "running" /\ written = Nothing /\ ~fault
  /\ step \in {"create", "apply", "write"} => input = ImageOf(file)
  /\ step = "apply" /\ name # "rgb"
       => output = [width |-> file.width, height |-> file.height,
                    data |-> [i \in Pixels(file) |-> Black]]
  /\ step = "write" =>
       /\ ~IsRefused
       /\ name = "ellipse" => ~DividesByZero(input)
       /\ output = [width |-> file.width, height |-> file.height, data |-> Transformed]

IInv == ImageInv /\ WritesAsDocumented /\ FailsAsDocumented

LEMMA InitInv ==
  ASSUME ImageInit
  PROVE  IInv
BY DEF ImageInit, IInv, ImageInv, WritesAsDocumented, FailsAsDocumented

\* What is written for a pixel.
LEMMA BytesAreWritten ==
  ASSUME ImageParameters, IInv, WriteImage, name = "ellipse" => IsSmall,
         NEW row \in 0..(file.height - 1), NEW col \in 0..(file.width - 1), NEW c \in 1..4
  PROVE  At(written', row, col, c) = Documented(row, col, c)
<1> DEFINE i == row * file.width + col
           n == i * 4 + c
           d == DocumentedAt(row, col)
<1>1. step = "write" /\ input = ImageOf(file) /\ file \in Files /\ little \in BOOLEAN
      /\ ~IsRefused /\ (name = "ellipse" => ~DividesByZero(input))
      /\ output = [width |-> file.width, height |-> file.height, data |-> Transformed]
  BY DEF WriteImage, IInv, ImageInv
<1>2. LooksAt(row, col)
  BY <1>1 DEF LooksAt
<1>3. Transformed[i] = Color(d) /\ d \in [1..4 -> Component]
  BY <1>1, <1>2, TransformedAsDocumented
<1>4. d[c] = Documented(row, col, c)
  BY DEF DocumentedAt
<1>5. file.width \in Nat /\ file.height \in Nat
  BY <1>1 DEF ImageParameters
<1>6. i \in 0..(file.width * file.height - 1)
  BY <1>5, RowAndColumn
<1> HIDE DEF d, i
<1>7. n \in 1..(4 * file.width * file.height)
  <2>1. PICK m \in Nat : m = file.width * file.height
    BY <1>5
  <2>2. n \in 1..(4 * m)
    BY <1>6, <2>1
  <2>3. 4 * m = 4 * file.width * file.height
    BY <1>5, <2>1
  <2> QED
    BY <2>2, <2>3
<1>8. (n - 1) \div 4 = i /\ ((n - 1) % 4) + 1 = c
  BY <1>6
<1> HIDE DEF n
<1>9. written'.bytes[n]
        = Store(WordToWrite(output.data[(n - 1) \div 4]))[((n - 1) % 4) + 1]
  BY <1>1, <1>7 DEF WriteImage
<1>10. written'.bytes[n] = d[c]
  BY <1>1, <1>3, <1>8, <1>9, PixelsAreStored
<1>11. At(written', row, col, c) = written'.bytes[n]
  <2>1. written'.width = file.width /\ written'.alpha
    BY <1>1 DEF WriteImage
  <2>2. Depth(written') = 4
    BY <2>1 DEF Depth
  <2> QED
    BY <2>1, <2>2 DEF At, n, i
<1> QED
  BY <1>4, <1>10, <1>11

LEMMA StepInv ==
  ASSUME ImageParameters, IInv, [ImageNext]_imageVars
  PROVE  IInv'
<1> USE DEF IInv, ImageInv
<1>1. CASE ReadFails
  BY <1>1 DEF ReadFails, WritesAsDocumented, FailsAsDocumented
<1>2. CASE Read
  <2>1. input' = ImageOf(file)
    BY <1>2, PixelIsRead DEF Read, ImageOf
  <2> QED
    BY <1>2, <2>1 DEF Read, WritesAsDocumented, FailsAsDocumented
<1>3. CASE CreateFails
  BY <1>3 DEF CreateFails, Fails, WritesAsDocumented, FailsAsDocumented
<1>4. CASE Create
  <2>1. ASSUME name # "rgb"
        PROVE  output' = [width |-> file.width, height |-> file.height,
                          data |-> [i \in Pixels(file) |-> Black]]
    <3>1. input.width = file.width /\ input.height = file.height
      BY <1>4 DEF Create, ImageOf
    <3>2. 1 * file.width = file.width /\ 1 * file.height = file.height
      BY DEF ImageParameters
    <3> QED
      BY <1>4, <2>1, <3>1, <3>2 DEF Create, Pixels
  <2> QED
    BY <1>4, <2>1 DEF Create, WritesAsDocumented, FailsAsDocumented
<1>5. CASE ApplyFails
  <2>1. input.width = file.width /\ input.height = file.height
    BY <1>5 DEF ApplyFails, ImageOf
  <2>2. FailsAsDocumented'
    BY <1>5, <2>1 DEF ApplyFails, Fails, IsRefused, FailsAsDocumented, Transformations
  <2> QED
    BY <1>5, <2>2 DEF ApplyFails, Fails, WritesAsDocumented
<1>6. CASE Crashes
  <2>1. name \in Transformations /\ name # "transpose"
    BY <1>6 DEF Crashes, Transformations
  <2>2. ASSUME IsSmall
        PROVE  file.width = 1 \/ file.height = 1
    BY <1>6, <2>2, ZeroRadius DEF Crashes
  <2>3. IsSmall' <=> IsSmall
    BY <1>6 DEF Crashes, IsSmall, HalfWidth, HalfHeight
  <2>4. FailsAsDocumented'
    BY <1>6, <2>1, <2>2, <2>3 DEF Crashes, FailsAsDocumented
  <2> QED
    BY <1>6, <2>4 DEF Crashes, WritesAsDocumented
<1>7. CASE Apply
  <2>1. name # "rgb"
    BY <1>7 DEF Apply, IsRefused, Transformations
  <2>2. output' = [width |-> file.width, height |-> file.height, data |-> Transformed]
    BY <1>7, <2>1 DEF Apply
  <2>3. UNCHANGED <<build, name, file, input>>
    BY <1>7 DEF Apply
  <2>4. IsRefused' <=> IsRefused
    BY <2>3 DEF IsRefused
  <2>5. DividesByZero(input)' <=> DividesByZero(input)
    BY <2>3
  <2>6. Transformed' = Transformed
    BY <2>3 DEF Transformed, InC, InAssembly
  <2>7. ImageInv'
    BY <1>7, <2>2, <2>4, <2>5, <2>6 DEF Apply
  <2> QED
    BY <1>7, <2>7 DEF Apply, WritesAsDocumented, FailsAsDocumented
<1>8. CASE OpenFails \/ CopyFails \/ WriteCrashes \/ WriteFallsShort
  <2>1. step' = "done" /\ fault' /\ file' = file /\ little' = little
    BY <1>8 DEF OpenFails, CopyFails, WriteCrashes, WriteFallsShort, Fails
  <2> QED
    BY <2>1 DEF WritesAsDocumented, FailsAsDocumented
<1>9. CASE WriteImage
  <2>1. UNCHANGED <<name, file, input>> /\ ~IsRefused
        /\ (name = "ellipse" => ~DividesByZero(input))
        /\ input = ImageOf(file) /\ status' = "success" /\ ~fault'
    BY <1>9 DEF WriteImage
  <2>2. IsSmall' <=> IsSmall
    BY <2>1 DEF IsSmall, HalfWidth, HalfHeight
  <2>3. FailsAsDocumented'
    <3>1. input.width = file.width /\ input.height = file.height
      BY <2>1 DEF ImageOf
    <3>2. name \in Transformations /\ ~(name = "transpose" /\ file.width # file.height)
      BY <2>1, <3>1 DEF IsRefused
    <3>3. ASSUME name = "ellipse", IsSmall
          PROVE  ~(file.width = 1 \/ file.height = 1)
      BY <2>1, <3>3, ZeroRadius
    <3> QED
      BY <2>1, <2>2, <3>2, <3>3 DEF FailsAsDocumented
  <2>4. \A row, col, c : Documented(row, col, c)' = Documented(row, col, c)
    BY <2>1 DEF Documented, DocumentedInside, DocumentedGray
  <2>5. written'.width = file.width /\ written'.height = file.height
    BY <1>9 DEF WriteImage
  <2>6. WritesAsDocumented'
    BY <1>9, <2>1, <2>2, <2>4, <2>5, BytesAreWritten DEF WritesAsDocumented
  <2> QED
    BY <1>9, <2>3, <2>6 DEF WriteImage
<1>10. CASE UNCHANGED imageVars
  <2>1. UNCHANGED <<step, build, little, name, file, input, output, written, status, fault>>
    BY <1>10 DEF imageVars
  <2>2. ImageInv'
    BY <2>1 DEF IsRefused, Transformed, InC, InAssembly
  <2>3. FailsAsDocumented'
    BY <2>1 DEF FailsAsDocumented, IsSmall, HalfWidth, HalfHeight
  <2>4. WritesAsDocumented'
    <3>1. \A row, col, c : Documented(row, col, c)' = Documented(row, col, c)
      BY <2>1 DEF Documented, DocumentedInside, DocumentedGray
    <3>2. IsSmall' <=> IsSmall
      BY <2>1 DEF IsSmall, HalfWidth, HalfHeight
    <3> QED
      BY <2>1, <3>1, <3>2 DEF WritesAsDocumented
  <2> QED
    BY <2>2, <2>3, <2>4
<1> QED
  BY <1>1, <1>2, <1>3, <1>4, <1>5, <1>6, <1>7, <1>8, <1>9, <1>10 DEF ImageNext

\* In either build, on a machine of either byte order, every byte of an output
\* file is the one that imgproc.h tells for the bytes of the input file, if the
\* program reports success, no product of an ellipse is too big for an int, and no
\* call failed (a file that could not be written to its end goes unreported).
THEOREM WrittenAsDocumented == ImageSpec => []WritesAsDocumented
<1> USE ImageAssumption
<1>1. ImageInit => IInv
  BY InitInv
<1>2. IInv /\ [ImageNext]_imageVars => IInv'
  BY StepInv
<1>3. IInv => WritesAsDocumented
  BY DEF IInv
<1> QED
  BY <1>1, <1>2, <1>3, PTL DEF ImageSpec

\* Without a fault of the system, the program fails exactly for an unknown
\* transformation and for the transposition of an image that is not square, it
\* crashes exactly for an ellipse of radius 0 (or one that is too big), and it
\* has written nothing then.
THEOREM FailuresAsDocumented == ImageSpec => []FailsAsDocumented
<1> USE ImageAssumption
<1>1. ImageInit => IInv
  BY InitInv
<1>2. IInv /\ [ImageNext]_imageVars => IInv'
  BY StepInv
<1>3. IInv => FailsAsDocumented
  BY DEF IInv
<1> QED
  BY <1>1, <1>2, <1>3, PTL DEF ImageSpec

===============================================================================
