-------------------------- MODULE FileIndex_proofs --------------------------
(***************************************************************************)
(* Proofs about module FileIndex: for files of any number of pages and of  *)
(* any size, prepared under any sequence of policies, every row has the    *)
(* vector of its own content, rows that pass for current are tagged with   *)
(* the pages of the file, and what is handed to the provider is acceptable *)
(* to it.  For documents of any length under any options, no word is lost, *)
(* and every chunk has words of one section under its own headings.        *)
(***************************************************************************)
EXTENDS FileIndex, SequenceTheorems, FunctionTheorems, FiniteSetTheorems,
        WellFoundedInduction, TLAPS

---------------------------------------------------------------------------
(* Numbers.                                                                *)

\* A set of numbers has a least.
LEMMA LeastOfNumbers ==
    ASSUME NEW S, S \subseteq Nat, S # {}
    PROVE  \E m \in S : \A x \in S : m <= x
<1>1. PICK b \in S : TRUE
  OBVIOUS
<1> DEFINE T == {1..x : x \in {y \in S : y <= b}}
<1>2. T \subseteq FiniteSubsetsOf(Nat) /\ T # {}
  <2>1. \A n \in Nat : IsFiniteSet(1..n) /\ 1..n \subseteq Nat
    BY FS_Interval
  <2>2. b \in {y \in S : y <= b}
    BY <1>1
  <2>3. QED
    BY <2>1, <2>2 DEF FiniteSubsetsOf
<1>3. IsWellFoundedOn(StrictSubsetOrdering(Nat), FiniteSubsetsOf(Nat))
  BY FS_StrictSubsetOrderingWellFounded
<1>4. PICK I \in T : \A J \in T : <<J, I>> \notin StrictSubsetOrdering(Nat)
  BY <1>2, <1>3, WFMin
<1>5. PICK m \in S : m <= b /\ I = 1..m
  BY <1>4
<1>6. ASSUME NEW x \in S, x < m
      PROVE  FALSE
  <2>1. x <= b /\ 1..x \in T
    BY <1>1, <1>5, <1>6
  <2>2. 1..x \subseteq 1..m /\ m \in 1..m /\ m \notin 1..x
    BY <1>6
  <2>3. <<1..x, 1..m>> \in StrictSubsetOrdering(Nat)
    BY <2>2 DEF StrictSubsetOrdering
  <2>4. QED
    BY <1>4, <1>5, <2>1, <2>3
<1>7. QED
  BY <1>5, <1>6

\* One that is bounded has a greatest.
LEMMA GreatestOfNumbers ==
    ASSUME NEW S, S \subseteq Nat, S # {}, NEW b \in Nat, \A x \in S : x <= b
    PROVE  \E m \in S : \A x \in S : x <= m
<1> DEFINE T == {b - x : x \in S}
<1>1. T \subseteq Nat /\ T # {}
  <2>1. \A x \in S : b - x \in Nat
    OBVIOUS
  <2>2. QED
    BY <2>1
<1>2. PICK m \in T : \A x \in T : m <= x
  BY <1>1, LeastOfNumbers
<1>3. PICK g \in S : m = b - g
  BY <1>2
<1>4. \A x \in S : b - g <= b - x
  BY <1>2, <1>3
<1>5. QED
  BY <1>3, <1>4

LEMMA Division ==
    ASSUME NEW a \in Nat, NEW b \in Nat \ {0}
    PROVE  /\ a \div b \in Nat
           /\ (a \div b) * b <= a /\ a < (a \div b) * b + b
OBVIOUS

---------------------------------------------------------------------------
(* page_ranges and limit_pixels.                                           *)

\* n ranges, whole chunks of pages from the first page on, the last of them what
\* is left.
Covers(ranges, n, count, size) ==
    /\ ranges \in [1..n -> Nat \X Nat] /\ DOMAIN ranges = 1..n
    /\ \A i \in 1..n :
         /\ ranges[i][1] = (i - 1) * size
         /\ ranges[i][1] < ranges[i][2] /\ ranges[i][2] <= count
         /\ ranges[i][2] - ranges[i][1] <= size
    /\ \A i \in 1..n - 1 : ranges[i][2] = i * size
    /\ ranges[n][2] = count

LEMMA RangesCoverPages ==
    ASSUME NEW count \in Nat \ {0}, NEW size \in Nat \ {0}
    PROVE  \E n \in Nat \ {0} : Covers(page_ranges(count, size), n, count, size)
<1> DEFINE n == (count + size - 1) \div size
           ranges == page_ranges(count, size)
<1>1. n \in Nat \ {0} /\ (n - 1) * size < count /\ count <= n * size
  <2>1. count + size - 1 \in Nat
    OBVIOUS
  <2>2. n \in Nat /\ n * size <= count + size - 1 /\ count + size - 1 < n * size + size
    BY <2>1, Division
  <2> HIDE DEF n
  <2>3. (n - 1) * size = n * size - size /\ n * size \in Nat
    BY <2>2
  <2>4. (n - 1) * size < count /\ count <= n * size
    BY <2>2, <2>3
  <2>5. n # 0
    BY <2>4
  <2>6. QED
    BY <2>2, <2>4, <2>5
<1>2. ranges = [i \in 1..n |-> <<(i - 1) * size,
                                 IF i * size < count THEN i * size ELSE count>>]
  BY DEF page_ranges
<1> HIDE DEF n, ranges
<1>3. ASSUME NEW i \in 1..n
      PROVE  /\ ranges[i] = <<(i - 1) * size, IF i * size < count THEN i * size ELSE count>>
             /\ (i - 1) * size \in Nat /\ i * size \in Nat
             /\ (i - 1) * size + size = i * size
             /\ (i - 1) * size <= (n - 1) * size
             /\ i < n => i * size <= (n - 1) * size
  <2>1. (i - 1) * size \in Nat /\ i * size \in Nat /\ (i - 1) * size + size = i * size
    BY <1>1
  <2>2. (n - i) * size \in Nat
    BY <1>1
  <2>3. (n - 1) * size = (i - 1) * size + (n - i) * size
    BY <1>1
  <2>4. (i - 1) * size <= (n - 1) * size
    BY <2>1, <2>2, <2>3
  <2>5. i < n => i * size <= (n - 1) * size
    <3>1. i < n => (n - 1 - i) * size \in Nat
      BY <1>1
    <3>2. (n - 1) * size = i * size + (n - 1 - i) * size
      BY <1>1
    <3>3. QED
      BY <2>1, <3>1, <3>2
  <2>6. QED
    BY <1>2, <2>1, <2>4, <2>5
<1>4. (n - 1) * size \in Nat /\ n * size \in Nat
  BY <1>1
<1>5. ranges \in [1..n -> Nat \X Nat] /\ DOMAIN ranges = 1..n
  BY <1>2, <1>3
<1>6. ASSUME NEW i \in 1..n
      PROVE  /\ ranges[i][1] = (i - 1) * size
             /\ ranges[i][1] < ranges[i][2] /\ ranges[i][2] <= count
             /\ ranges[i][2] - ranges[i][1] <= size
             /\ i < n => ranges[i][2] = i * size
  BY <1>1, <1>3, <1>4
<1>7. ranges[n][2] = count
  BY <1>1, <1>3, <1>4
<1>8. QED
  <2>1. \A i \in 1..n - 1 : ranges[i][2] = i * size
    BY <1>1, <1>6
  <2>2. Covers(ranges, n, count, size)
    BY ONLY <1>1, <1>5, <1>6, <1>7, <2>1 DEF Covers
  <2>3. QED
    BY ONLY <1>1, <2>2 DEF ranges

LEMMA ProductsCompare ==
    ASSUME NEW a \in Nat, NEW b \in Nat, NEW c \in Nat, NEW d \in Nat, a <= b, c <= d
    PROVE  a * c <= b * d
<1>1. b - a \in Nat /\ d - c \in Nat
  OBVIOUS
<1>2. (b - a) * c \in Nat /\ b * (d - c) \in Nat
  BY <1>1
<1>3. b * d = a * c + (b - a) * c + b * (d - c)
  OBVIOUS
<1>4. a * c \in Nat
  OBVIOUS
<1>5. QED
  BY <1>2, <1>3, <1>4

\* Two sides each shrunk by the root of the excess have no more pixels than the cap.
LEMMA SidesWithinCap ==
    ASSUME NEW x \in Nat \ {0}, NEW y \in Nat \ {0}, NEW cap \in Nat,
           NEW r \in Nat, NEW s \in Nat,
           r * r * y <= cap * x, s * s * x <= cap * y
    PROVE  r * s <= cap
<1> DEFINE u == r * s
           p == x * y
<1>1. u \in Nat /\ p \in Nat \ {0}
  OBVIOUS
<1>2. u * u * p <= cap * cap * p
  <2>1. (r * r * y) * (s * s * x) <= (cap * x) * (cap * y)
    BY ProductsCompare
  <2>2. (r * r * y) * (s * s * x) = u * u * p
    OBVIOUS
  <2>3. (cap * x) * (cap * y) = cap * cap * p
    OBVIOUS
  <2>4. QED
    BY <2>1, <2>2, <2>3
<1> HIDE DEF u, p
<1>3. ASSUME cap < u
      PROVE  FALSE
  <2>1. (cap + 1) * (cap + 1) <= u * u
    BY <1>1, <1>3, ProductsCompare
  <2>2. (cap + 1) * (cap + 1) * p <= u * u * p
    BY <1>1, <2>1, ProductsCompare
  <2>3. (cap + 1) * (cap + 1) * p = cap * cap * p + 2 * cap * p + p
    BY <1>1
  <2>4. cap * cap * p \in Nat /\ 2 * cap * p \in Nat /\ u * u * p \in Nat
    BY <1>1
  <2>5. QED
    BY <1>1, <1>2, <2>2, <2>3, <2>4
<1>4. QED
  BY <1>1, <1>3 DEF u

LEMMA ShrunkFits ==
    ASSUME NEW x \in Nat \ {0}, NEW y \in Nat \ {0}, NEW cap \in Nat
    PROVE  /\ Shrunk(x, y, cap) \in 1..x
           /\ Shrunk(x, y, cap) = 1
                \/ Shrunk(x, y, cap) * Shrunk(x, y, cap) * y <= cap * x
<1> DEFINE Fits == {r \in 1..x : r * r * y <= cap * x}
<1>1. Shrunk(x, y, cap) = IF Fits = {} THEN 1 ELSE CHOOSE r \in Fits : \A q \in Fits : q <= r
  BY DEF Shrunk
<1>2. Fits # {} => \E r \in Fits : \A q \in Fits : q <= r
  <2>1. Fits \subseteq Nat /\ \A q \in Fits : q <= x
    OBVIOUS
  <2> HIDE DEF Fits
  <2>2. QED
    BY <2>1, GreatestOfNumbers
<1>3. Fits # {} => Shrunk(x, y, cap) \in Fits
  <2> HIDE DEF Fits
  <2>1. QED
    BY <1>1, <1>2
<1>4. QED
  BY <1>1, <1>3

\* A picture that has been limited is within the cap, unless a side of it is one
\* pixel.
LEMMA LimitedIsWithinCap ==
    ASSUME NEW x \in Nat \ {0}, NEW y \in Nat \ {0}, NEW cap \in Nat
    PROVE  LET size == limit_pixels(<<x, y>>, cap) IN
           /\ size[1] \in Nat /\ size[2] \in Nat
           /\ size[1] = 1 \/ size[2] = 1 \/ size[1] * size[2] <= cap
<1>1. CASE x * y <= cap
  BY <1>1 DEF limit_pixels
<1>2. CASE ~(x * y <= cap)
  <2>1. limit_pixels(<<x, y>>, cap) = <<Shrunk(x, y, cap), Shrunk(y, x, cap)>>
    BY <1>2 DEF limit_pixels
  <2>2. PICK r \in Nat, s \in Nat :
          /\ r = Shrunk(x, y, cap) /\ s = Shrunk(y, x, cap)
          /\ r = 1 \/ r * r * y <= cap * x
          /\ s = 1 \/ s * s * x <= cap * y
    <3>1. Shrunk(x, y, cap) \in Nat /\ Shrunk(y, x, cap) \in Nat
      BY ShrunkFits
    <3>2. QED
      BY <3>1, ShrunkFits
  <2>3. r = 1 \/ s = 1 \/ r * s <= cap
    BY <2>2, SidesWithinCap
  <2>4. QED
    BY <2>1, <2>2, <2>3
<1>3. QED
  BY <1>1, <1>2

---------------------------------------------------------------------------
(* What prepare_media makes of a PDF and of a picture.                     *)

\* Results are collected only when none of them has failed.
LEMMA CollectedOfNone ==
    ASSUME NEW n \in Nat, NEW results, DOMAIN results = 1..n, Collected(results).ok
    PROVE  /\ \A i \in 1..n : results[i].ok
           /\ Collected(results).value = [i \in 1..n |-> results[i].value]
<1> DEFINE Failed == {i \in DOMAIN results : ~results[i].ok}
<1>1. CASE Failed = {}
  BY <1>1 DEF Collected, Ok
<1>2. CASE Failed # {}
  <2>1. Failed \subseteq Nat
    OBVIOUS
  <2>2. Collected(results) = results[CHOOSE i \in Failed : \A j \in Failed : i <= j]
    BY <1>2 DEF Collected
  <2>3. \A i \in Failed : ~results[i].ok
    OBVIOUS
  <2> HIDE DEF Failed
  <2>4. \E i \in Failed : \A j \in Failed : i <= j
    BY <1>2, <2>1, LeastOfNumbers
  <2>5. QED
    BY <2>2, <2>3, <2>4
<1>3. QED
  BY <1>1, <1>2

\* What a chunk is of the pages of its range.
NativeChunk(chunk, bytes, range) ==
    /\ range[2] - range[1] <= NATIVE_PAGES
    /\ \E b : /\ chunk = PdfChunk(range, <<Original(b, "application/pdf")>>)
              /\ b.format = "pdf"
              /\ b.pages = SubSeq(bytes.pages, range[1] + 1, range[2])

RasterChunk(chunk, bytes, range, opts) ==
    chunk = PdfChunk(range, [k \in 1..range[2] - range[1] |->
                               Rendered(bytes, range[1] + k, opts)])

LEMMA PdfsTyped ==
    ASSUME NEW bytes \in Pdfs
    PROVE  /\ bytes.format = "pdf" /\ bytes.pages \in Seq(Contents)
           /\ Len(bytes.pages) \in Nat /\ DOMAIN bytes.pages = 1..Len(bytes.pages)
           /\ \A range : /\ Extract(bytes, range).format = "pdf"
                         /\ Extract(bytes, range).pages = SubSeq(bytes.pages, range[1] + 1, range[2])
<1>1. PICK n \in 0..MaxPages :
        bytes \in [format : {"pdf"}, parses : BOOLEAN, pages : [1..n -> Contents], bad : 0..n]
  BY DEF Pdfs
<1>2. n \in Nat
  BY FileIndexAssumption
<1>3. bytes.pages \in [1..n -> Contents] /\ bytes.format = "pdf"
  BY <1>1
<1>4. bytes.pages \in Seq(Contents)
  BY <1>2, <1>3
<1>5. \A range : /\ Extract(bytes, range).format = "pdf"
                  /\ Extract(bytes, range).pages = SubSeq(bytes.pages, range[1] + 1, range[2])
  BY <1>1 DEF Extract
<1>6. QED
  BY <1>3, <1>4, <1>5, LenProperties

\* A PDF that is prepared has a chunk for each range of its pages.
LEMMA PdfIsPrepared ==
    ASSUME NEW bytes \in Pdfs, NEW m \in ModelInfos, NEW opts,
           opts.pdf_pages_per_chunk \in Nat \ {0},
           prepare_pdf(bytes, m, opts).ok
    PROVE  LET chunks == prepare_pdf(bytes, m, opts).value
               ranges == page_ranges(Len(bytes.pages), opts.pdf_pages_per_chunk)
           IN /\ Len(bytes.pages) \in Nat \ {0}
              /\ m.pdf_mode \in {"native", "raster"}
              /\ chunks = [i \in DOMAIN ranges |-> chunks[i]]
              /\ \A i \in DOMAIN ranges :
                   /\ m.pdf_mode = "native" => NativeChunk(chunks[i], bytes, ranges[i])
                   /\ m.pdf_mode = "raster" => RasterChunk(chunks[i], bytes, ranges[i], opts)
<1> DEFINE count == Len(bytes.pages)
           size == opts.pdf_pages_per_chunk
           ranges == page_ranges(count, size)
           prepared == prepare_pdf(bytes, m, opts)
<1>1. count \in Nat /\ bytes.pages \in Seq(Contents) /\ bytes.format = "pdf"
  BY PdfsTyped
<1>2. CASE m.pdf_mode = "native"
  <2> DEFINE Chunk(range) ==
            IF range[2] - range[1] > NATIVE_PAGES THEN Err("PdfChunkTooLarge")
            ELSE IF Len(ranges) = 1
                 THEN Ok(PdfChunk(range, <<Original(bytes, "application/pdf")>>))
            ELSE IF bytes.bad \in range[1] + 1..range[2] THEN Err("PdfExtract")
            ELSE Ok(PdfChunk(range, <<Original(Extract(bytes, range), "application/pdf")>>))
         results == [i \in DOMAIN ranges |-> Chunk(ranges[i])]
  <2>1. /\ bytes.parses /\ count # 0
        /\ prepared = Collected(results)
    BY <1>2 DEF prepare_pdf, prepare_native_pdf, Err
  <2>0. count \in Nat \ {0} /\ size \in Nat \ {0}
    BY <1>1, <2>1
  <2>8. PICK n \in Nat \ {0} : Covers(ranges, n, count, size)
    BY ONLY <2>0, RangesCoverPages
  <2>2. /\ ranges \in [1..n -> Nat \X Nat] /\ DOMAIN ranges = 1..n
        /\ \A i \in 1..n : ranges[i][1] = (i - 1) * size
        /\ ranges[n][2] = count
    BY <2>8 DEF Covers
  <2>3. Len(ranges) = n
    BY <2>2
  <2> HIDE DEF ranges
  <2>4. DOMAIN results = 1..n
    BY <2>2
  <2>5. (\A i \in 1..n : results[i].ok) /\ prepared.value = [j \in 1..n |-> results[j].value]
    <3> HIDE DEF results
    <3>1. n \in Nat /\ DOMAIN results = 1..n /\ Collected(results).ok
      BY <2>1, <2>4
    <3>2. /\ \A i \in 1..n : results[i].ok
          /\ Collected(results).value = [i \in 1..n |-> results[i].value]
      BY ONLY <3>1, CollectedOfNone
    <3>3. QED
      BY <2>1, <3>2
  <2>6. ASSUME NEW i \in 1..n
        PROVE  NativeChunk(results[i].value, bytes, ranges[i])
    <3>1. results[i] = Chunk(ranges[i]) /\ results[i].ok
      BY <2>2, <2>5
    <3>2. ranges[i][1] \in Nat /\ ranges[i][2] \in Nat
      BY <2>2
    <3> HIDE DEF results
    <3>3. ~(ranges[i][2] - ranges[i][1] > NATIVE_PAGES)
      BY <3>1 DEF Err
    <3>7. ranges[i][2] - ranges[i][1] <= NATIVE_PAGES
      BY <3>2, <3>3 DEF NATIVE_PAGES
    <3>4. CASE Len(ranges) = 1
      <4>1. n = 1 /\ i = 1
        BY <2>3, <3>4
      <4>2. ranges[i][1] = 0 /\ ranges[i][2] = count
        BY <2>2, <4>1
      <4>3. SubSeq(bytes.pages, ranges[i][1] + 1, ranges[i][2]) = bytes.pages
        BY <1>1, <4>2, SubSeqFull
      <4>4. results[i].value = PdfChunk(ranges[i], <<Original(bytes, "application/pdf")>>)
        BY <3>1, <3>3, <3>4 DEF Ok
      <4>5. QED
        BY <1>1, <3>7, <4>3, <4>4 DEF NativeChunk
    <3>5. CASE Len(ranges) # 1
      <4>1. results[i].value
              = PdfChunk(ranges[i], <<Original(Extract(bytes, ranges[i]), "application/pdf")>>)
        BY <3>1, <3>3, <3>5 DEF Ok, Err
      <4>2. /\ Extract(bytes, ranges[i]).format = "pdf"
            /\ Extract(bytes, ranges[i]).pages = SubSeq(bytes.pages, ranges[i][1] + 1, ranges[i][2])
        BY PdfsTyped
      <4>3. QED
        BY <3>7, <4>1, <4>2 DEF NativeChunk
    <3>6. QED
      BY <3>4, <3>5
  <2>7. QED
    <3> HIDE DEF results
    <3>1. prepared.value = [i \in DOMAIN ranges |-> prepared.value[i]]
      BY <2>2, <2>5
    <3>2. \A i \in DOMAIN ranges : NativeChunk(prepared.value[i], bytes, ranges[i])
      BY <2>2, <2>5, <2>6
    <3> HIDE DEF prepared
    <3>3. QED
      BY <1>2, <2>0, <3>1, <3>2 DEF prepared, ranges
<1>3. CASE m.pdf_mode = "raster"
  <2> DEFINE Chunk(range) ==
            IF bytes.bad \in range[1] + 1..range[2] THEN Err("PdfRender")
            ELSE Ok(PdfChunk(range, [i \in 1..range[2] - range[1] |->
                                        Rendered(bytes, range[1] + i, opts)]))
         results == [i \in DOMAIN ranges |-> Chunk(ranges[i])]
  <2>1. /\ bytes.parses /\ count # 0
        /\ prepared = Collected(results)
    BY <1>3 DEF prepare_pdf, prepare_raster_pdf, Err
  <2>0. count \in Nat \ {0} /\ size \in Nat \ {0}
    BY <1>1, <2>1
  <2>7. PICK n \in Nat \ {0} : Covers(ranges, n, count, size)
    BY ONLY <2>0, RangesCoverPages
  <2>2. DOMAIN ranges = 1..n
    BY <2>7 DEF Covers
  <2> HIDE DEF ranges
  <2>3. DOMAIN results = 1..n
    BY <2>2
  <2>4. (\A i \in 1..n : results[i].ok) /\ prepared.value = [j \in 1..n |-> results[j].value]
    <3> HIDE DEF results
    <3>1. QED
      BY <2>1, <2>2, <2>3, CollectedOfNone
  <2>5. ASSUME NEW i \in 1..n
        PROVE  RasterChunk(results[i].value, bytes, ranges[i], opts)
    <3>1. results[i] = Chunk(ranges[i]) /\ results[i].ok
      BY <2>2, <2>4
    <3> HIDE DEF results
    <3>2. QED
      BY <3>1 DEF RasterChunk, Ok, Err
  <2>6. QED
    <3> HIDE DEF results
    <3>1. prepared.value = [i \in DOMAIN ranges |-> prepared.value[i]]
      BY <2>2, <2>4
    <3>2. \A i \in DOMAIN ranges : RasterChunk(prepared.value[i], bytes, ranges[i], opts)
      BY <2>2, <2>4, <2>5
    <3> HIDE DEF prepared
    <3>3. QED
      BY <1>3, <2>0, <3>1, <3>2 DEF prepared, ranges
<1>4. CASE m.pdf_mode \notin {"native", "raster"}
  BY <1>4 DEF ModelInfos, prepare_pdf, Err
<1>5. QED
  BY <1>2, <1>3, <1>4

\* A part that is a picture as the providers take it.
PictureWithin(part) ==
    /\ part.mime_type = mime_for_image(part.bytes.format)
    /\ part.bytes.format \in {"png", "jpeg"}
    /\ \/ part.bytes.size[1] = 1 \/ part.bytes.size[2] = 1
       \/ part.bytes.size[1] * part.bytes.size[2] <= MAX_IMAGE_PIXELS

LEMMA EncodedIsWithin ==
    ASSUME NEW x \in Nat \ {0}, NEW y \in Nat \ {0}, NEW picture
    PROVE  PictureWithin(encode_png(picture, limit_pixels(<<x, y>>, MAX_IMAGE_PIXELS)))
<1>1. MAX_IMAGE_PIXELS \in Nat
  BY MediaAssumption
<1> DEFINE size == limit_pixels(<<x, y>>, MAX_IMAGE_PIXELS)
<1>2. size[1] = 1 \/ size[2] = 1 \/ size[1] * size[2] <= MAX_IMAGE_PIXELS
  BY <1>1, LimitedIsWithinCap
<1> HIDE DEF size
<1>3. QED
  BY <1>2 DEF PictureWithin, encode_png, mime_for_image, size

LEMMA ImagesTyped ==
    ASSUME NEW bytes \in Images
    PROVE  /\ bytes.format \in {"png", "jpeg", "gif", "webp", "bmp", "unknown"}
           /\ bytes.animated \in BOOLEAN
           /\ bytes.animated => bytes.format \in {"gif", "webp"}
           /\ \E x, y \in Nat \ {0} : bytes.size = <<x, y>>
<1>1. Sides \subseteq Nat \ {0}
  BY FileIndexAssumption
<1>2. \A size \in (Sides \X Sides) \cup {<<1, 1>>} : \E x, y \in Nat \ {0} : size = <<x, y>>
  <2> SUFFICES ASSUME NEW size \in (Sides \X Sides) \cup {<<1, 1>>}
               PROVE  \E x, y \in Nat \ {0} : size = <<x, y>>
    OBVIOUS
  <2>1. CASE size = <<1, 1>>
    BY <2>1
  <2>2. CASE size \in Sides \X Sides
    <3>1. PICK x \in Sides, y \in Sides : size = <<x, y>>
      BY <2>2
    <3>2. QED
      BY <1>1, <3>1
  <2>3. QED
    BY <2>1, <2>2
<1>3. /\ bytes.format \in {"png", "jpeg", "gif", "webp", "bmp", "unknown"}
      /\ bytes.animated \in BOOLEAN
      /\ bytes.animated => bytes.format \in {"gif", "webp"}
      /\ bytes.size \in (Sides \X Sides) \cup {<<1, 1>>}
  BY DEF Images
<1>4. QED
  BY <1>2, <1>3

\* A picture that is prepared is one part within the limits.
LEMMA ImageIsPrepared ==
    ASSUME NEW bytes \in Images, NEW opts,
           opts.max_image_pixels = MAX_IMAGE_PIXELS,
           prepare_image(bytes, opts).ok
    PROVE  \E chunk, part :
             /\ prepare_image(bytes, opts).value = <<chunk>>
             /\ chunk.parts = <<part>> /\ PictureWithin(part)
             /\ chunk.truncated = bytes.animated
<1>1. PICK x \in Nat \ {0}, y \in Nat \ {0} : bytes.size = <<x, y>>
  BY ImagesTyped
<1> DEFINE size == limit_pixels(bytes.size, MAX_IMAGE_PIXELS)
           must_encode_png == bytes.format \in {"gif", "webp"} \/ size # bytes.size
           part == IF must_encode_png THEN encode_png(bytes.picture, size)
                   ELSE Original(bytes, mime_for_image(bytes.format))
           chunk == [media_type |-> "image", parts |-> <<part>>, pages |-> <<>>,
                     mime_type |-> part.mime_type, truncated |-> Animated(bytes)]
<1>2. bytes.format \in Decodable /\ bytes.decodes /\ bytes.format # "unknown"
  <2>1. CASE bytes.format = "unknown"
    BY <2>1 DEF prepare_image, Err
  <2>2. CASE bytes.format # "unknown" /\ (bytes.format \notin Decodable \/ ~bytes.decodes)
    BY <2>2 DEF prepare_image, Err
  <2>3. QED
    BY <2>1, <2>2
<1>3. prepare_image(bytes, opts).value = <<chunk>>
  BY <1>2 DEF prepare_image, Ok
<1>4. PictureWithin(part)
  <2>1. CASE must_encode_png
    BY <1>1, <2>1, EncodedIsWithin
  <2>2. CASE ~must_encode_png
    <3>1. part.bytes = bytes /\ part.mime_type = mime_for_image(bytes.format)
      BY <2>2 DEF Original
    <3>2. bytes.format \in {"png", "jpeg"}
      BY <1>2, <2>2 DEF Decodable
    <3>3. PictureWithin(encode_png(bytes.picture, size))
      BY <1>1, EncodedIsWithin
    <3>4. encode_png(bytes.picture, size).bytes.size = bytes.size
      BY <2>2 DEF encode_png
    <3> HIDE DEF part
    <3>5. QED
      BY <3>1, <3>2, <3>3, <3>4 DEF PictureWithin
  <2>3. QED
    BY <2>1, <2>2
<1>5. Animated(bytes) = bytes.animated
  BY <1>2, ImagesTyped DEF Animated, Decodable
<1>6. chunk.parts = <<part>> /\ chunk.truncated = bytes.animated
  BY <1>5
<1>7. QED
  BY <1>3, <1>4, <1>6

---------------------------------------------------------------------------
(* The cache, and the embeddings that are put together from it.            *)

\* An entry of the cache has the vector of what its key is made from.
CacheTold == \A entry \in cache : entry.vector = entry.key[2]

\* A key is made from what is embedded.
KeyTells(keyed) == keyed.key[2] = Embedding(keyed.chunk)

\* s is a sequence, of whatever.
Listing(s, n) == s = [i \in 1..n |-> s[i]]

LEMMA ListingIsSeq ==
    ASSUME NEW n \in Nat, NEW s, Listing(s, n)
    PROVE  /\ DOMAIN s = 1..n /\ Len(s) = n
           /\ s \in Seq({s[i] : i \in 1..n})
<1> DEFINE S == {s[i] : i \in 1..n}
<1>1. s \in [1..n -> S] /\ DOMAIN s = 1..n
  BY DEF Listing
<1> HIDE DEF S
<1>2. s \in Seq(S)
  BY <1>1
<1>3. Len(s) = n
  BY <1>1, <1>2, LenProperties
<1>4. QED
  BY <1>1, <1>2, <1>3 DEF S

\* Wherever a vector comes from, it is that of the chunk at its place.
LEMMA EmbeddingsInOrder ==
    ASSUME CacheTold, NEW n \in Nat, NEW chunks, Listing(chunks, n),
           \A i \in 1..n : KeyTells(chunks[i])
    PROVE  resolve_embeddings(chunks) = [i \in 1..n |-> Embedding(chunks[i].chunk)]
<1> DEFINE misses == {i \in DOMAIN chunks : ~Cached(chunks[i].key)}
           Nth(i) == Cardinality({j \in misses : j <= i})
           missing == [k \in 1..Cardinality(misses) |-> CHOOSE i \in misses : Nth(i) = k]
           fresh == [k \in DOMAIN missing |-> Embedding(chunks[missing[k]].chunk)]
           hit(i) == (CHOOSE entry \in cache : entry.key = chunks[i].key).vector
<1>1. DOMAIN chunks = 1..n
  BY ListingIsSeq
<1>2. resolve_embeddings(chunks)
        = [i \in 1..n |-> IF Cached(chunks[i].key) THEN hit(i) ELSE fresh[Nth(i)]]
  BY <1>1 DEF resolve_embeddings
<1>3. ASSUME NEW i \in 1..n, Cached(chunks[i].key)
      PROVE  hit(i) = Embedding(chunks[i].chunk)
  <2>1. PICK entry \in cache : entry = (CHOOSE e \in cache : e.key = chunks[i].key)
                               /\ entry.key = chunks[i].key
    BY <1>3 DEF Cached
  <2>2. QED
    BY <2>1 DEF CacheTold, KeyTells
<1>4. misses \subseteq Nat /\ IsFiniteSet(misses) /\ misses \subseteq 1..n
  <2>1. IsFiniteSet(1..n)
    BY FS_Interval
  <2>2. misses \in SUBSET (1..n)
    BY <1>1
  <2> HIDE DEF misses
  <2>3. IsFiniteSet(misses)
    BY <2>1, <2>2, FS_Subset
  <2>4. misses \subseteq Nat
    BY <2>2
  <2>5. QED
    BY <2>2, <2>3, <2>4
<1>5. ASSUME NEW i \in 1..n, ~Cached(chunks[i].key)
      PROVE  fresh[Nth(i)] = Embedding(chunks[i].chunk)
  <2>1. i \in misses
    BY <1>1, <1>5
  <2> HIDE DEF misses
  <2>2. \A j \in misses : Nth(j) \in 1..Cardinality(misses)
                         /\ \A m \in misses : j < m => Nth(j) < Nth(m)
    <3> SUFFICES ASSUME NEW j \in misses
                 PROVE  Nth(j) \in 1..Cardinality(misses)
                        /\ \A m \in misses : j < m => Nth(j) < Nth(m)
      OBVIOUS
    <3>1. IsFiniteSet({x \in misses : x <= j}) /\ Nth(j) <= Cardinality(misses)
      <4>1. {x \in misses : x <= j} \in SUBSET misses
        OBVIOUS
      <4>2. QED
        BY <1>4, <4>1, FS_Subset
    <3>2. Nth(j) \in Nat /\ Nth(j) # 0 /\ Cardinality(misses) \in Nat
      <4>1. j \in {x \in misses : x <= j}
        BY <1>4
      <4>2. QED
        BY <1>4, <3>1, <4>1, FS_CardinalityType, FS_EmptySet
    <3>3. ASSUME NEW m \in misses, j < m
          PROVE  Nth(j) < Nth(m)
      <4>1. /\ {x \in misses : x <= j} \in SUBSET {x \in misses : x <= m}
            /\ m \in {x \in misses : x <= m} /\ m \notin {x \in misses : x <= j}
        <5>1. \A x \in misses : x \in Nat
          BY <1>4
        <5>2. j \in Nat /\ m \in Nat
          BY <5>1
        <5>3. \A x \in misses : x <= j => x <= m
          BY <3>3, <5>1, <5>2
        <5>4. ~(m <= j) /\ m <= m
          BY <3>3, <5>2
        <5>5. QED
          BY <5>3, <5>4
      <4>2. IsFiniteSet({x \in misses : x <= m})
        <5>1. {x \in misses : x <= m} \in SUBSET misses
          OBVIOUS
        <5>2. QED
          BY <1>4, <5>1, FS_Subset
      <4>3. Nth(j) <= Nth(m) /\ Nth(j) # Nth(m)
        BY <4>1, <4>2, FS_Subset
      <4>4. Nth(m) \in Nat
        BY <4>2, FS_CardinalityType
      <4>5. QED
        BY <3>2, <4>3, <4>4
    <3>4. QED
      BY <3>1, <3>2, <3>3
  <2> HIDE DEF Nth
  <2>3. \A j, m \in misses : Nth(j) = Nth(m) => j = m
    <3>1. \A j, m \in misses : j = m \/ j < m \/ m < j
      BY <1>4
    <3>2. QED
      BY <2>2, <3>1
  <2>4. missing[Nth(i)] = i /\ Nth(i) \in DOMAIN missing
    BY <2>1, <2>2, <2>3
  <2>5. QED
    BY <2>4
<1> HIDE DEF fresh, hit, Nth
<1>6. QED
  BY <1>2, <1>3, <1>5
---------------------------------------------------------------------------
(* The invariant.                                                          *)

OptionsOf(p) ==
    [pdf_pages_per_chunk |-> p.pdf_pages_per_chunk, pdf_dpi |-> p.pdf_dpi,
     max_image_pixels |-> MAX_IMAGE_PIXELS]
HashOf(p) == <<file.bytes, p.max_file_mb, p.pdf_pages_per_chunk, p.pdf_dpi>>
PreparedUnder(p) == prepare_media(file.bytes, model, OptionsOf(p))

\* The chunks are those of the file under policy p, and the hash says so.
MadeUnder(p, hash, chunks) ==
    hash = HashOf(p) /\ PreparedUnder(p).ok /\ chunks = PreparedUnder(p).value

FileTyped ==
    /\ model \in ModelInfos /\ policy \in Policies
    /\ file = Document \/ file \in MediaFiles

\* What a job has in hand is of the file under the policy of this start.
JobInv ==
    /\ job.at = "split" => file.ext = "md"
    /\ job.at \in {"chunked", "embedded"} =>
         /\ \E n \in Nat : Listing(job.chunks, n)
         /\ \A i \in DOMAIN job.chunks : KeyTells(job.chunks[i])
         /\ file.ext # "md" =>
              MadeUnder(policy, job.hash, [i \in DOMAIN job.chunks |-> job.chunks[i].chunk])
    /\ job.at = "embedded" =>
         job.vectors = [i \in DOMAIN job.chunks |-> Embedding(job.chunks[i].chunk)]

\* The row is of the file under some policy.
RowInv ==
    row # None =>
        /\ \E n \in Nat : Listing(row.chunks, n)
        /\ row.vectors = [i \in DOMAIN row.chunks |-> Embedding(row.chunks[i])]
        /\ file.ext # "md" => \E p \in Policies : MadeUnder(p, row.hash, row.chunks)

\* The chunks of the document are a sequence.
OutListed == \E n \in Nat : Listing(out, n)

RowsInv == FileTyped /\ OutListed /\ CacheTold /\ JobInv /\ RowInv

\* A media file is prepared as what its bytes are, under options that are valid.
LEMMA MediaPrepared ==
    ASSUME FileTyped, file.ext # "md", NEW p \in Policies, PreparedUnder(p).ok
    PROVE  /\ file \in MediaFiles
           /\ OptionsOf(p).pdf_pages_per_chunk \in Nat \ {0} /\ p.pdf_dpi \in Nat \ {0}
           /\ \/ /\ file.bytes \in Images /\ file.bytes.format # "pdf"
                 /\ PreparedUnder(p) = prepare_image(file.bytes, OptionsOf(p))
              \/ /\ file.bytes \in Pdfs /\ file.bytes.format = "pdf"
                 /\ PreparedUnder(p) = prepare_pdf(file.bytes, model, OptionsOf(p))
<1>1. file \in MediaFiles /\ (file.bytes \in Images \/ file.bytes \in Pdfs)
  BY DEF FileTyped, Document, MediaFiles
<1>2. p.pdf_pages_per_chunk \in Nat /\ p.pdf_dpi \in Nat
  BY FileIndexAssumption DEF Policies
<1>3. /\ validate_options(OptionsOf(p))
      /\ PreparedUnder(p) = IF is_pdf(file.bytes) THEN prepare_pdf(file.bytes, model, OptionsOf(p))
                            ELSE prepare_image(file.bytes, OptionsOf(p))
  BY DEF PreparedUnder, prepare_media, Err
<1>4. OptionsOf(p).pdf_pages_per_chunk \in Nat \ {0} /\ p.pdf_dpi \in Nat \ {0}
  BY <1>2, <1>3 DEF validate_options, OptionsOf
<1>5. CASE file.bytes \in Images
  <2>1. file.bytes.format # "pdf"
    BY <1>5, ImagesTyped
  <2>2. QED
    BY <1>1, <1>3, <1>4, <1>5, <2>1 DEF is_pdf
<1>6. CASE file.bytes \in Pdfs
  <2>1. file.bytes.format = "pdf"
    BY <1>6, PdfsTyped
  <2>2. QED
    BY <1>1, <1>3, <1>4, <1>6, <2>1 DEF is_pdf
<1>7. QED
  BY <1>1, <1>5, <1>6

LEMMA PreparedIsListing ==
    ASSUME FileTyped, file.ext # "md", NEW p \in Policies, PreparedUnder(p).ok
    PROVE  \E n \in Nat : Listing(PreparedUnder(p).value, n)
<1> DEFINE value == PreparedUnder(p).value
<1>1. CASE /\ file.bytes \in Images
           /\ PreparedUnder(p) = prepare_image(file.bytes, OptionsOf(p))
  <2>1. OptionsOf(p).max_image_pixels = MAX_IMAGE_PIXELS
    BY DEF OptionsOf
  <2>2. PICK chunk : value = <<chunk>>
    BY <1>1, <2>1, ImageIsPrepared
  <2>3. value = [i \in 1..1 |-> value[i]]
    BY <2>2
  <2>4. QED
    BY <2>3 DEF Listing
<1>2. CASE /\ file.bytes \in Pdfs
           /\ PreparedUnder(p) = prepare_pdf(file.bytes, model, OptionsOf(p))
  <2> DEFINE ranges == page_ranges(Len(file.bytes.pages), OptionsOf(p).pdf_pages_per_chunk)
  <2>1. OptionsOf(p).pdf_pages_per_chunk \in Nat \ {0} /\ model \in ModelInfos
    BY MediaPrepared DEF FileTyped
  <2>2. Len(file.bytes.pages) \in Nat \ {0} /\ value = [i \in DOMAIN ranges |-> value[i]]
    BY <1>2, <2>1, PdfIsPrepared
  <2>3. PICK n \in Nat \ {0} :
          Covers(ranges, n, Len(file.bytes.pages), OptionsOf(p).pdf_pages_per_chunk)
    BY <2>1, <2>2, RangesCoverPages
  <2>4. DOMAIN ranges = 1..n
    BY <2>3 DEF Covers
  <2> HIDE DEF ranges, value
  <2>5. Listing(value, n)
    BY <2>2, <2>4 DEF Listing
  <2>6. QED
    BY <2>5 DEF value
<1>3. QED
  BY <1>1, <1>2, MediaPrepared

LEMMA AppendLists ==
    ASSUME NEW n \in Nat, NEW s, Listing(s, n), NEW e
    PROVE  Listing(Append(s, e), n + 1)
<1> DEFINE S == {s[i] : i \in 1..n} \cup {e}
<1>1. s \in Seq(S) /\ Len(s) = n
  <2>1. s \in Seq({s[i] : i \in 1..n}) /\ Len(s) = n
    BY ListingIsSeq
  <2>2. QED
    BY <2>1, SeqMonotonic
<1>2. e \in S
  OBVIOUS
<1> HIDE DEF S
<1>3. Append(s, e) \in Seq(S) /\ Len(Append(s, e)) = n + 1
  BY <1>1, <1>2, AppendProperties
<1>4. QED
  BY <1>3, LenProperties DEF Listing

\* A step of the chunker adds to its chunks at their end.
LEMMA SplitKeepsListing == OutListed /\ split_step => OutListed'
<1> SUFFICES ASSUME OutListed, split_step PROVE OutListed'
  OBVIOUS
<1>1. out' = out \/ \E e : out' = Append(out, e)
  BY DEF split_step, Fence, Heading, Prose, EndOfText, Blank, Whole, Window, Finish
<1>2. PICK n \in Nat : Listing(out, n)
  BY DEF OutListed
<1>3. CASE out' = out
  BY <1>2, <1>3 DEF OutListed
<1>4. ASSUME NEW e, out' = Append(out, e)
      PROVE  OutListed'
  <2>1. Listing(out', n + 1)
    BY <1>2, <1>4, AppendLists
  <2>2. n + 1 \in Nat
    OBVIOUS
  <2>3. QED
    BY <2>1, <2>2 DEF OutListed
<1>5. QED
  BY <1>1, <1>3, <1>4

---------------------------------------------------------------------------
(* The steps.                                                              *)

LEMMA RowsInit == FileInit => RowsInv
<1> SUFFICES ASSUME FileInit PROVE RowsInv
  OBVIOUS
<1>1. row = None /\ cache = {} /\ out = <<>>
  BY DEF FileInit, split_with
<1>2. OutListed
  <2>1. <<>> = [i \in 1..0 |-> <<>>[i]]
    OBVIOUS
  <2>2. QED
    BY <1>1, <2>1 DEF OutListed, Listing
<1>3. JobInv /\ (file = Document \/ file \in MediaFiles)
  BY DEF FileInit, JobInv, Document, Idle
<1>4. model \in ModelInfos /\ policy \in Policies
  <2>1. ModelInfos # {}
    BY DEF ModelInfos
  <2>2. PICK n \in PagesPerChunk, d \in Dpis, mb \in MaxFileMb : TRUE
    BY FileIndexAssumption
  <2>3. [pdf_pages_per_chunk |-> n, pdf_dpi |-> d, max_file_mb |-> mb, excluded_types |-> {}]
          \in Policies
    BY DEF Policies
  <2>4. QED
    BY <2>1, <2>3 DEF FileInit
<1>5. QED
  BY <1>1, <1>2, <1>3, <1>4 DEF RowsInv, FileTyped, CacheTold, RowInv

LEMMA SplittingKeeps == RowsInv /\ Splitting => RowsInv'
<1> SUFFICES ASSUME RowsInv, Splitting PROVE RowsInv'
  OBVIOUS
<1>1. UNCHANGED <<file, model, policy, job, row, cache>> /\ split_step
  BY DEF Splitting, media
<1>2. OutListed'
  BY <1>1, SplitKeepsListing DEF RowsInv
<1>3. FileTyped' /\ CacheTold'
  BY <1>1 DEF RowsInv, FileTyped, CacheTold
<1>4. JobInv' /\ RowInv'
  BY <1>1 DEF RowsInv, JobInv, RowInv, KeyTells, Embedding, MadeUnder, HashOf, PreparedUnder
<1>5. QED
  BY <1>2, <1>3, <1>4 DEF RowsInv

LEMMA SplitDoneKeeps == RowsInv /\ SplitDone => RowsInv'
<1> SUFFICES ASSUME RowsInv, SplitDone PROVE RowsInv'
  OBVIOUS
<1>1. /\ UNCHANGED <<file, model, policy, row, cache, out>> /\ file.ext = "md"
      /\ job' = [at |-> "chunked", hash |-> effective_file_hash, chunks |-> TextChunks]
  BY DEF SplitDone, media, chunker, RowsInv, JobInv
<1>2. OutListed' /\ FileTyped' /\ CacheTold'
  BY <1>1 DEF RowsInv, OutListed, FileTyped, CacheTold
<1>3. RowInv'
  BY <1>1 DEF RowsInv, RowInv, Embedding, MadeUnder, HashOf, PreparedUnder
<1>4. JobInv'
  <2>1. PICK n \in Nat : Listing(out, n)
    BY DEF RowsInv, OutListed
  <2>2. DOMAIN out = 1..n
    BY <2>1, ListingIsSeq
  <2>3. Listing(TextChunks, n) /\ DOMAIN TextChunks = 1..n
    BY <2>2 DEF TextChunks, Listing
  <2>4. job'.at = "chunked" /\ job'.chunks = TextChunks /\ file'.ext = "md"
    BY <1>1
  <2>5. \A i \in 1..n : KeyTells(job.chunks[i])'
    BY <2>2, <2>4 DEF TextChunks, KeyTells, Embedding, for_extension
  <2> HIDE DEF TextChunks
  <2>6. QED
    BY <2>3, <2>4, <2>5 DEF JobInv
<1>5. QED
  BY <1>2, <1>3, <1>4 DEF RowsInv

\* The steps after which nothing is in hand; Refuse takes the row away.
LEMMA EndsKeep == RowsInv /\ (Refuse \/ Unchanged) => RowsInv'
<1> SUFFICES ASSUME RowsInv, Refuse \/ Unchanged PROVE RowsInv'
  OBVIOUS
<1>1. /\ UNCHANGED <<file, model, policy, cache, out>>
      /\ job' = [at |-> "ended"] /\ (row' = row \/ row' = None)
  BY DEF Refuse, Unchanged, media, chunker
<1>2. OutListed' /\ FileTyped' /\ CacheTold' /\ JobInv'
  BY <1>1 DEF RowsInv, OutListed, FileTyped, CacheTold, JobInv
<1>3. RowInv'
  BY <1>1 DEF RowsInv, RowInv, Embedding, MadeUnder, HashOf, PreparedUnder
<1>4. QED
  BY <1>2, <1>3 DEF RowsInv

LEMMA PrepareKeeps == RowsInv /\ Prepare => RowsInv'
<1> SUFFICES ASSUME RowsInv, Prepare PROVE RowsInv'
  OBVIOUS
<1>1. UNCHANGED <<file, model, policy, row, cache, out>> /\ file.ext # "md"
  BY DEF Prepare, Starting, media, chunker
<1>2. OutListed' /\ FileTyped' /\ CacheTold'
  BY <1>1 DEF RowsInv, OutListed, FileTyped, CacheTold
<1>3. RowInv'
  BY <1>1 DEF RowsInv, RowInv, Embedding, MadeUnder, HashOf, PreparedUnder
<1>4. JobInv'
  <2>1. job' = IF PreparedUnder(policy).ok
               THEN [at |-> "chunked", hash |-> effective_file_hash,
                     chunks |-> Keyed(PreparedUnder(policy).value)]
               ELSE [at |-> "ended"]
    BY DEF Prepare, PreparedUnder, OptionsOf, options
  <2>2. CASE ~PreparedUnder(policy).ok
    <3>1. job' = [at |-> "ended"]
      BY <2>1, <2>2
    <3>2. QED
      BY <3>1 DEF JobInv
  <2>3. CASE PreparedUnder(policy).ok
    <3> DEFINE value == PreparedUnder(policy).value
    <3>1. PICK n \in Nat : Listing(value, n)
      BY <1>1, <2>3, PreparedIsListing DEF RowsInv, FileTyped
    <3>2. DOMAIN value = 1..n
      BY <3>1, ListingIsSeq
    <3>3. effective_file_hash = HashOf(policy) /\ for_extension(file.ext) # "text"
      BY <1>1 DEF RowsInv, FileTyped, Document, MediaFiles, effective_file_hash, HashOf, for_extension
    <3> HIDE DEF value
    <3>4. /\ job'.at = "chunked" /\ job'.hash = HashOf(policy) /\ job'.chunks = Keyed(value)
      BY <2>1, <2>3, <3>3 DEF value
    <3>5. Listing(job'.chunks, n) /\ DOMAIN job'.chunks = 1..n
      BY <3>2, <3>4 DEF Keyed, Listing
    <3>6. \A i \in 1..n : job'.chunks[i].chunk = value[i]
                         /\ job'.chunks[i].key = <<value[i].media_type, value[i].parts>>
      BY <3>2, <3>4 DEF Keyed, cache_key_for_input
    <3>7. \A i \in 1..n : KeyTells(job.chunks[i])'
      BY <1>1, <3>3, <3>6 DEF KeyTells, Embedding
    <3>8. [i \in DOMAIN job'.chunks |-> job'.chunks[i].chunk] = value
      BY <3>1, <3>5, <3>6 DEF Listing
    <3>9. MadeUnder(policy, job.hash, [i \in DOMAIN job.chunks |-> job.chunks[i].chunk])'
      BY <1>1, <2>3, <3>4, <3>8 DEF MadeUnder, HashOf, PreparedUnder, value
    <3>10. QED
      BY <3>4, <3>5, <3>7, <3>9 DEF JobInv
  <2>4. QED
    BY <2>2, <2>3
<1>5. QED
  BY <1>2, <1>3, <1>4 DEF RowsInv

LEMMA EmbedKeeps == RowsInv /\ Embed => RowsInv'
<1> SUFFICES ASSUME RowsInv, Embed PROVE RowsInv'
  OBVIOUS
<1>1. UNCHANGED <<file, model, policy, row, cache, out>> /\ job.at = "chunked"
  BY DEF Embed, media, chunker
<1>2. OutListed' /\ FileTyped' /\ CacheTold'
  BY <1>1 DEF RowsInv, OutListed, FileTyped, CacheTold
<1>3. RowInv'
  BY <1>1 DEF RowsInv, RowInv, Embedding, MadeUnder, HashOf, PreparedUnder
<1>4. JobInv'
  <2>1. CASE job' = [at |-> "ended"]
    BY <2>1 DEF JobInv
  <2>2. CASE job' = [at |-> "embedded", hash |-> job.hash, chunks |-> job.chunks,
                     vectors |-> resolve_embeddings(job.chunks)]
    <3>1. /\ job'.at = "embedded" /\ job'.hash = job.hash /\ job'.chunks = job.chunks
          /\ job'.vectors = resolve_embeddings(job.chunks)
      BY <2>2
    <3>2. PICK n \in Nat : Listing(job.chunks, n)
      BY <1>1 DEF RowsInv, JobInv
    <3>3. DOMAIN job.chunks = 1..n
      BY <3>2, ListingIsSeq
    <3>4. \A i \in 1..n : KeyTells(job.chunks[i])
      BY <1>1, <3>3 DEF RowsInv, JobInv
    <3>5. job'.vectors = [i \in 1..n |-> Embedding(job.chunks[i].chunk)]
      BY <3>1, <3>2, <3>4, EmbeddingsInOrder DEF RowsInv
    <3>6. (job.vectors = [i \in DOMAIN job.chunks |-> Embedding(job.chunks[i].chunk)])'
      BY <1>1, <3>1, <3>3, <3>5 DEF Embedding
    <3>7. (\A i \in DOMAIN job.chunks : KeyTells(job.chunks[i]))'
      BY <1>1, <3>1, <3>3, <3>4 DEF KeyTells, Embedding
    <3>8. file.ext # "md" =>
            MadeUnder(policy, job.hash, [i \in DOMAIN job.chunks |-> job.chunks[i].chunk])'
      BY <1>1, <3>1 DEF RowsInv, JobInv, MadeUnder, HashOf, PreparedUnder
    <3>9. QED
      BY <1>1, <3>1, <3>2, <3>6, <3>7, <3>8 DEF JobInv
  <2>3. QED
    BY <2>1, <2>2 DEF Embed
<1>5. QED
  BY <1>2, <1>3, <1>4 DEF RowsInv

\* The vectors that go into the cache are those the keys are made from.
LEMMA ReplaceKeeps == RowsInv /\ Replace => RowsInv'
<1> SUFFICES ASSUME RowsInv, Replace PROVE RowsInv'
  OBVIOUS
<1> DEFINE rows == [i \in DOMAIN job.chunks |-> job.chunks[i].chunk]
           new == {[key |-> job.chunks[i].key, vector |-> job.vectors[i]] :
                     i \in {j \in DOMAIN job.chunks : ~Cached(job.chunks[j].key)}}
<1>1. UNCHANGED <<file, model, policy, out>> /\ job.at = "embedded"
  BY DEF Replace, media, chunker
<1>2. /\ row' = [hash |-> job.hash, vectors |-> job.vectors, chunks |-> rows]
      /\ cache' = cache \cup new
      /\ job' = [at |-> "ended"]
  BY DEF Replace
<1>3. PICK n \in Nat : Listing(job.chunks, n)
  BY <1>1 DEF RowsInv, JobInv
<1>4. DOMAIN job.chunks = 1..n
  BY <1>3, ListingIsSeq
<1>5. \A i \in 1..n : /\ KeyTells(job.chunks[i])
                     /\ job.vectors[i] = Embedding(job.chunks[i].chunk)
  BY <1>1, <1>4 DEF RowsInv, JobInv
<1>6. OutListed' /\ FileTyped' /\ JobInv'
  BY <1>1, <1>2 DEF RowsInv, OutListed, FileTyped, JobInv
<1>7. CacheTold'
  <2>1. \A entry \in new : entry.vector = entry.key[2]
    BY <1>4, <1>5 DEF KeyTells
  <2> HIDE DEF new
  <2>2. QED
    BY <1>2, <2>1 DEF RowsInv, CacheTold
<1>8. RowInv'
  <2>1. row'.hash = job.hash /\ row'.vectors = job.vectors /\ row'.chunks = rows
    BY <1>2
  <2>2. Listing(rows, n) /\ DOMAIN rows = 1..n
    BY <1>4 DEF Listing
  <2>3. \A i \in 1..n : rows[i] = job.chunks[i].chunk
    BY <1>4
  <2>4. job.vectors = [i \in 1..n |-> Embedding(job.chunks[i].chunk)]
    BY <1>1, <1>4 DEF RowsInv, JobInv
  <2>5. file.ext # "md" => MadeUnder(policy, job.hash, rows)
    BY <1>1 DEF RowsInv, JobInv
  <2>6. file.ext # "md" => MadeUnder(policy, row.hash, row.chunks)' /\ policy' \in Policies
    BY <1>1, <2>1, <2>5 DEF RowsInv, FileTyped, MadeUnder, HashOf, PreparedUnder
  <2> HIDE DEF rows
  <2>7. (row.vectors = [i \in DOMAIN row.chunks |-> Embedding(row.chunks[i])])'
    BY <1>1, <2>1, <2>2, <2>3, <2>4 DEF Embedding
  <2>8. QED
    BY <1>1, <2>1, <2>2, <2>6, <2>7 DEF RowInv
<1>9. QED
  BY <1>6, <1>7, <1>8 DEF RowsInv

LEMMA RestartKeeps == RowsInv /\ Restart => RowsInv'
<1> SUFFICES ASSUME RowsInv, Restart PROVE RowsInv'
  OBVIOUS
<1>1. /\ UNCHANGED <<file, model, row, cache, out>> /\ policy' \in Policies
      /\ job' = [at |-> "idle"]
  BY DEF Restart, chunker, Idle
<1>2. OutListed' /\ FileTyped' /\ CacheTold' /\ JobInv'
  BY <1>1 DEF RowsInv, OutListed, FileTyped, CacheTold, JobInv
<1>3. RowInv'
  BY <1>1 DEF RowsInv, RowInv, Embedding, MadeUnder, HashOf, PreparedUnder
<1>4. QED
  BY <1>2, <1>3 DEF RowsInv

\* Whatever is done, stopped and started anew, the row, the cache and what is
\* in hand are of the file.
THEOREM RowsInductive == FileSpec => []RowsInv
<1>1. RowsInv /\ UNCHANGED fileVars => RowsInv'
  <2> SUFFICES ASSUME RowsInv, UNCHANGED fileVars PROVE RowsInv'
    OBVIOUS
  <2>1. UNCHANGED <<file, model, policy, job, row, cache, out>>
    BY DEF fileVars, media, chunker
  <2>2. OutListed' /\ FileTyped' /\ CacheTold'
    BY <2>1 DEF RowsInv, OutListed, FileTyped, CacheTold
  <2>3. JobInv' /\ RowInv'
    BY <2>1 DEF RowsInv, JobInv, RowInv, KeyTells, Embedding, MadeUnder, HashOf, PreparedUnder
  <2>4. QED
    BY <2>2, <2>3 DEF RowsInv
<1>2. RowsInv /\ FileNext => RowsInv'
  BY SplittingKeeps, SplitDoneKeeps, EndsKeep, PrepareKeeps, EmbedKeeps, ReplaceKeeps,
     RestartKeeps DEF FileNext
<1>3. QED
  BY <1>1, <1>2, RowsInit, PTL DEF FileSpec

---------------------------------------------------------------------------
(* What follows from the invariant.                                        *)

\* What the chunks of a PDF are, under the policy they were made under.
LEMMA PdfUnderPolicy ==
    ASSUME FileTyped, file.ext # "md", file.bytes.format = "pdf",
           NEW p \in Policies, PreparedUnder(p).ok
    PROVE  LET chunks == PreparedUnder(p).value
               size == p.pdf_pages_per_chunk
               count == Len(file.bytes.pages)
               ranges == page_ranges(count, size)
           IN /\ file.bytes \in Pdfs /\ model.pdf_mode \in {"native", "raster"}
              /\ count \in Nat \ {0} /\ size \in Nat \ {0} /\ p.pdf_dpi \in Nat \ {0}
              /\ \E n \in Nat \ {0} : Covers(ranges, n, count, size) /\ Listing(chunks, n)
              /\ \A i \in DOMAIN ranges :
                   /\ model.pdf_mode = "native" =>
                        NativeChunk(chunks[i], file.bytes, ranges[i])
                   /\ model.pdf_mode = "raster" =>
                        RasterChunk(chunks[i], file.bytes, ranges[i], OptionsOf(p))
<1> DEFINE size == p.pdf_pages_per_chunk
           count == Len(file.bytes.pages)
           ranges == page_ranges(count, size)
           chunks == PreparedUnder(p).value
<1>1. /\ file.bytes \in Pdfs /\ PreparedUnder(p) = prepare_pdf(file.bytes, model, OptionsOf(p))
      /\ OptionsOf(p).pdf_pages_per_chunk \in Nat \ {0} /\ p.pdf_dpi \in Nat \ {0}
      /\ model \in ModelInfos /\ OptionsOf(p).pdf_pages_per_chunk = size
  BY MediaPrepared DEF FileTyped, OptionsOf
<1>2. /\ count \in Nat \ {0} /\ model.pdf_mode \in {"native", "raster"}
      /\ chunks = [i \in DOMAIN ranges |-> chunks[i]]
      /\ \A i \in DOMAIN ranges :
           /\ model.pdf_mode = "native" => NativeChunk(chunks[i], file.bytes, ranges[i])
           /\ model.pdf_mode = "raster" =>
                RasterChunk(chunks[i], file.bytes, ranges[i], OptionsOf(p))
  BY <1>1, PdfIsPrepared
<1>3. PICK n \in Nat \ {0} : Covers(ranges, n, count, size)
  BY <1>1, <1>2, RangesCoverPages
<1>4. DOMAIN ranges = 1..n
  BY <1>3 DEF Covers
<1> HIDE DEF ranges, chunks, size, count
<1>5. Listing(chunks, n)
  BY <1>2, <1>4 DEF Listing
<1>6. QED
  BY <1>1, <1>2, <1>3, <1>5 DEF ranges, chunks, size, count

\* The pages that are rendered for a chunk are those of its range.
LEMMA RenderedPages ==
    ASSUME NEW bytes \in Pdfs, NEW r1 \in Nat, NEW r2 \in Nat,
           r1 <= r2, r2 <= Len(bytes.pages), NEW opts
    PROVE  [k \in 1..r2 - r1 |-> Rendered(bytes, r1 + k, opts).bytes.picture]
             = SubSeq(bytes.pages, r1 + 1, r2)
<1>1. bytes.pages \in Seq(Contents) /\ \A i \in r1 + 1..r2 : bytes.pages[i] \in Contents
  BY PdfsTyped, ElementOfSeq
<1>2. /\ SubSeq(bytes.pages, r1 + 1, r2) \in Seq(Contents)
      /\ Len(SubSeq(bytes.pages, r1 + 1, r2)) = r2 - r1
      /\ \A k \in 1..r2 - r1 : SubSeq(bytes.pages, r1 + 1, r2)[k] = bytes.pages[r1 + k]
  <2>1. r1 + 1 \in Int /\ r2 \in Int
    OBVIOUS
  <2>2. /\ SubSeq(bytes.pages, r1 + 1, r2) \in Seq(Contents)
        /\ Len(SubSeq(bytes.pages, r1 + 1, r2)) = IF r1 + 1 <= r2 THEN r2 - (r1 + 1) + 1 ELSE 0
        /\ \A i \in 1..r2 - (r1 + 1) + 1 :
             SubSeq(bytes.pages, r1 + 1, r2)[i] = bytes.pages[r1 + 1 + i - 1]
    BY <1>1, <2>1, SubSeqProperties
  <2>3. \A k \in 1..r2 - r1 : r1 + 1 + k - 1 = r1 + k /\ k \in 1..r2 - (r1 + 1) + 1
    OBVIOUS
  <2>4. QED
    BY <2>2, <2>3
<1>3. \A k \in 1..r2 - r1 : Rendered(bytes, r1 + k, opts).bytes.picture = bytes.pages[r1 + k]
  BY DEF Rendered, encode_png
<1>4. DOMAIN SubSeq(bytes.pages, r1 + 1, r2) = 1..r2 - r1
  BY <1>2, LenProperties
<1>5. SubSeq(bytes.pages, r1 + 1, r2) = [k \in 1..r2 - r1 |-> bytes.pages[r1 + k]]
  BY <1>2, <1>4, LenProperties
<1>6. QED
  BY <1>3, <1>5

\* src/indexer/mod.rs:355 resolve_embeddings, src/media_prepare.rs: whatever the
\* cache holds from earlier policies, each row has the vector of its own words,
\* picture or pages.
THEOREM VectorsFollowContent == FileSpec => []VectorsAreOfTheirChunks
<1>1. RowsInv => VectorsAreOfTheirChunks
  <2> SUFFICES ASSUME RowsInv PROVE VectorsAreOfTheirChunks
    OBVIOUS
  <2>1. CASE row = None
    <3>1. row.vectors = <<>> /\ row.chunks = <<>>
      BY <2>1 DEF None
    <3>2. Len(row.vectors) = Len(row.chunks) /\ DOMAIN row.chunks = {}
      BY <3>1
    <3>3. QED
      BY <3>2 DEF VectorsAreOfTheirChunks
  <2>2. CASE row # None
    <3>1. PICK n \in Nat : Listing(row.chunks, n)
      BY <2>2 DEF RowsInv, RowInv
    <3>2. DOMAIN row.chunks = 1..n /\ Len(row.chunks) = n
      BY <3>1, ListingIsSeq
    <3>3. row.vectors = [i \in 1..n |-> Embedding(row.chunks[i])]
      BY <2>2, <3>2 DEF RowsInv, RowInv
    <3>4. Len(row.vectors) = n
      <4>1. Listing(row.vectors, n)
        BY <3>3 DEF Listing
      <4>2. QED
        BY <4>1, ListingIsSeq
    <3>5. ASSUME NEW i \in 1..n, for_extension(file.ext) # "text", file.bytes.format = "pdf"
          PROVE  LET chunk == row.chunks[i]
                     bytes(k) == row.vectors[i][k].bytes
                     shown == IF model.pdf_mode = "native" THEN bytes(1).pages
                              ELSE [k \in DOMAIN row.vectors[i] |-> bytes(k).picture]
                 IN shown = SubSeq(file.bytes.pages, chunk.pages[1] + 1, chunk.pages[2])
      <4>1. file.ext # "md"
        BY <3>5 DEF for_extension
      <4>2. PICK p \in Policies : MadeUnder(p, row.hash, row.chunks)
        BY <2>2, <4>1 DEF RowsInv, RowInv
      <4> DEFINE ranges == page_ranges(Len(file.bytes.pages), p.pdf_pages_per_chunk)
                 r1 == ranges[i][1]
                 r2 == ranges[i][2]
      <4>3. /\ FileTyped /\ PreparedUnder(p).ok /\ row.chunks = PreparedUnder(p).value
        BY <4>2 DEF MadeUnder, RowsInv
      <4>4. /\ file.bytes \in Pdfs /\ model.pdf_mode \in {"native", "raster"}
            /\ Len(file.bytes.pages) \in Nat \ {0}
            /\ \E m \in Nat \ {0} :
                 /\ Covers(ranges, m, Len(file.bytes.pages), p.pdf_pages_per_chunk)
                 /\ Listing(row.chunks, m)
            /\ \A j \in DOMAIN ranges :
                 /\ model.pdf_mode = "native" => NativeChunk(row.chunks[j], file.bytes, ranges[j])
                 /\ model.pdf_mode = "raster" =>
                      RasterChunk(row.chunks[j], file.bytes, ranges[j], OptionsOf(p))
        BY <3>5, <4>1, <4>3, PdfUnderPolicy
      <4> HIDE DEF ranges
      <4>5. PICK m \in Nat \ {0} : Covers(ranges, m, Len(file.bytes.pages), p.pdf_pages_per_chunk)
                                   /\ Listing(row.chunks, m)
        BY <4>4
      <4>6. m = n
        BY <3>2, <4>5, ListingIsSeq
      <4>7. /\ i \in DOMAIN ranges /\ r1 \in Nat /\ r2 \in Nat
            /\ r1 <= r2 /\ r2 <= Len(file.bytes.pages)
        BY <4>5, <4>6 DEF Covers
      <4>8. row.vectors[i] = row.chunks[i].parts
        BY <3>3, <3>5 DEF Embedding
      <4> HIDE DEF r1, r2
      <4>9. CASE model.pdf_mode = "native"
        <5>1. PICK b : /\ row.chunks[i] = PdfChunk(ranges[i], <<Original(b, "application/pdf")>>)
                       /\ b.pages = SubSeq(file.bytes.pages, ranges[i][1] + 1, ranges[i][2])
          BY <4>4, <4>7, <4>9 DEF NativeChunk
        <5>2. row.chunks[i].pages = ranges[i] /\ row.chunks[i].parts[1].bytes = b
          BY <5>1 DEF PdfChunk, Original
        <5>3. QED
          BY <4>8, <4>9, <5>1, <5>2
      <4>10. CASE model.pdf_mode = "raster"
        <5>1. row.chunks[i] = PdfChunk(ranges[i],
                [k \in 1..r2 - r1 |-> Rendered(file.bytes, r1 + k, OptionsOf(p))])
          BY <4>4, <4>7, <4>10 DEF RasterChunk, r1, r2
        <5>2. /\ row.chunks[i].pages[1] = r1 /\ row.chunks[i].pages[2] = r2
              /\ DOMAIN row.chunks[i].parts = 1..r2 - r1
              /\ \A k \in 1..r2 - r1 :
                   row.chunks[i].parts[k] = Rendered(file.bytes, r1 + k, OptionsOf(p))
          BY <5>1 DEF PdfChunk, r1, r2
        <5>3. [k \in DOMAIN row.vectors[i] |-> row.vectors[i][k].bytes.picture]
                = [k \in 1..r2 - r1 |-> Rendered(file.bytes, r1 + k, OptionsOf(p)).bytes.picture]
          BY <4>8, <5>2
        <5>4. [k \in 1..r2 - r1 |-> Rendered(file.bytes, r1 + k, OptionsOf(p)).bytes.picture]
                = SubSeq(file.bytes.pages, r1 + 1, r2)
          BY <4>4, <4>7, RenderedPages
        <5>5. QED
          BY <4>10, <5>2, <5>3, <5>4
      <4>11. QED
        BY <4>4, <4>9, <4>10
    <3>6. QED
      BY <3>2, <3>3, <3>4, <3>5 DEF VectorsAreOfTheirChunks
  <2>3. QED
    BY <2>1, <2>2
<1>2. QED
  BY <1>1, RowsInductive, PTL

\* src/cli/output.rs:55, src/media_prepare.rs: rows that pass for current are
\* tagged with all the pages of the file, chunk after chunk, by the policy as it
\* is.
THEOREM TagsCountThePages == FileSpec => []PagesAreTagged
<1>1. RowsInv => PagesAreTagged
  <2> SUFFICES ASSUME RowsInv, Current, file.bytes.format = "pdf"
               PROVE  PagesAreTagged
    BY DEF PagesAreTagged
  <2> DEFINE size == policy.pdf_pages_per_chunk
             count == Len(file.bytes.pages)
             ranges == page_ranges(count, size)
             tag(i) == media_tag(row.chunks[i])
  <2>1. file \in MediaFiles /\ file.ext # "md" /\ for_extension(file.ext) # "text"
    BY DEF RowsInv, FileTyped, Document, MediaFiles, for_extension
  <2>2. PICK p \in Policies : MadeUnder(p, row.hash, row.chunks)
    BY <2>1 DEF RowsInv, RowInv, Current
  <2>3. p.pdf_pages_per_chunk = size
    BY <2>1, <2>2 DEF MadeUnder, HashOf, Current, effective_file_hash
  <2>4. /\ FileTyped /\ PreparedUnder(p).ok /\ row.chunks = PreparedUnder(p).value
    BY <2>2 DEF MadeUnder, RowsInv
  <2>5. /\ count \in Nat \ {0} /\ size \in Nat \ {0}
        /\ model.pdf_mode \in {"native", "raster"}
        /\ \E n \in Nat \ {0} : Covers(ranges, n, count, size) /\ Listing(row.chunks, n)
        /\ \A i \in DOMAIN ranges :
             /\ model.pdf_mode = "native" => NativeChunk(row.chunks[i], file.bytes, ranges[i])
             /\ model.pdf_mode = "raster" =>
                  RasterChunk(row.chunks[i], file.bytes, ranges[i], OptionsOf(p))
    BY <2>1, <2>3, <2>4, PdfUnderPolicy
  <2> HIDE DEF ranges
  <2>6. PICK n \in Nat \ {0} : Covers(ranges, n, count, size) /\ Listing(row.chunks, n)
    BY <2>5
  <2>7. /\ DOMAIN ranges = 1..n /\ ranges \in [1..n -> Nat \X Nat]
        /\ \A i \in 1..n :
             /\ ranges[i][1] = (i - 1) * size
             /\ ranges[i][1] < ranges[i][2] /\ ranges[i][2] <= count
             /\ ranges[i][2] - ranges[i][1] <= size
        /\ \A i \in 1..n - 1 : ranges[i][2] = i * size
        /\ ranges[n][2] = count
    BY <2>6 DEF Covers
  <2>8. Len(row.chunks) = n
    BY <2>6, ListingIsSeq
  <2>9. ASSUME NEW i \in 1..n
        PROVE  /\ tag(i).type = "pdf" /\ tag(i).pages # <<>>
               /\ tag(i).pages[1] = ranges[i][1] + 1 /\ tag(i).pages[2] = ranges[i][2]
    <3>1. row.chunks[i].media_type = "pdf" /\ row.chunks[i].pages = ranges[i]
      <4>1. \E parts : row.chunks[i] = PdfChunk(ranges[i], parts)
        BY <2>5, <2>7 DEF NativeChunk, RasterChunk
      <4>2. QED
        BY <4>1 DEF PdfChunk
    <3> HIDE DEF tag
    <3>2. PICK a \in Nat, b \in Nat : ranges[i] = <<a, b>>
      <4>1. ranges[i] \in Nat \X Nat
        BY <2>7
      <4>2. QED
        BY <4>1
    <3>3. a < b
      BY <2>7, <3>2
    <3>4. pdf_page_range(ranges[i]) = <<a + 1, b>>
      BY <3>2, <3>3 DEF pdf_page_range
    <3>5. QED
      BY <3>1, <3>2, <3>4 DEF media_tag, tag
  <2>10. \A i \in 1..n : ranges[i][1] \in Nat /\ ranges[i][2] \in Nat
    <3>1. \A i \in 1..n : ranges[i] \in Nat \X Nat
      BY <2>7
    <3>2. QED
      BY <3>1
  <2> HIDE DEF tag, size, count
  <2>11. tag(1).pages[1] = 1 /\ tag(n).pages[2] = count
    <3>1. ranges[1][1] = 0
      <4>1. ranges[1][1] = (1 - 1) * size
        BY <2>7
      <4>2. QED
        BY <2>5, <4>1
    <3>2. QED
      BY <2>7, <2>9, <3>1
  <2>12. \A i \in 2..n : tag(i).pages[1] = tag(i - 1).pages[2] + 1
    <3> SUFFICES ASSUME NEW i \in 2..n PROVE tag(i).pages[1] = tag(i - 1).pages[2] + 1
      OBVIOUS
    <3>1. i \in 1..n /\ i - 1 \in 1..n /\ i - 1 \in 1..n - 1
      OBVIOUS
    <3>2. ranges[i][1] = (i - 1) * size /\ ranges[i - 1][2] = (i - 1) * size
      BY <2>7, <3>1
    <3>3. QED
      BY <2>9, <3>1, <3>2
  <2>13. \A i \in 1..n - 1 : tag(i).pages[2] - tag(i).pages[1] + 1 = size
    <3> SUFFICES ASSUME NEW i \in 1..n - 1 PROVE tag(i).pages[2] - tag(i).pages[1] + 1 = size
      OBVIOUS
    <3>1. i \in 1..n
      OBVIOUS
    <3>2. /\ tag(i).pages[1] = (i - 1) * size + 1 /\ tag(i).pages[2] = i * size
      BY <2>7, <2>9, <3>1
    <3>3. (i - 1) * size + size = i * size /\ (i - 1) * size \in Nat /\ i * size \in Nat
      BY <2>5
    <3>4. QED
      BY <2>5, <3>2, <3>3
  <2>14. tag(n).pages[2] - tag(n).pages[1] + 1 <= size
    <3>1. n \in 1..n
      OBVIOUS
    <3>2. ranges[n][2] - ranges[n][1] <= size
      BY <2>7, <3>1
    <3>3. tag(n).pages[1] = ranges[n][1] + 1 /\ tag(n).pages[2] = ranges[n][2]
      BY <2>9, <3>1
    <3>4. QED
      BY <2>5, <2>10, <3>1, <3>2, <3>3
  <2>15. QED
    BY <2>8, <2>9, <2>11, <2>12, <2>13, <2>14 DEF PagesAreTagged, tag, size, count
<1>2. QED
  BY <1>1, RowsInductive, PTL

\* src/media_prepare.rs: whatever the file and the policy, what is handed to the
\* provider is of a type it takes, and within its limits.
THEOREM ProvidersCanTakeIt == FileSpec => []PayloadsAreAcceptable
<1>1. RowsInv => PayloadsAreAcceptable
  <2> SUFFICES ASSUME RowsInv, job.at = "chunked", for_extension(file.ext) # "text",
                      NEW i \in DOMAIN job.chunks
               PROVE  LET chunk == job.chunks[i].chunk
                          parts == chunk.parts
                      IN /\ parts # <<>>
                         /\ chunk.truncated = (file.bytes.format # "pdf" /\ file.bytes.animated)
                         /\ \A k \in DOMAIN parts :
                              \/ /\ parts[k].mime_type = "application/pdf"
                                 /\ parts[k].bytes.format = "pdf" /\ Len(parts) = 1
                                 /\ Len(parts[k].bytes.pages) \in 1..NATIVE_PAGES
                              \/ PictureWithin(parts[k])
    BY DEF PayloadsAreAcceptable, PictureWithin
  <2> DEFINE chunks == PreparedUnder(policy).value
             chunk == job.chunks[i].chunk
             parts == chunk.parts
  <2>1. file.ext # "md" /\ FileTyped /\ policy \in Policies
    BY DEF for_extension, RowsInv, FileTyped
  <2>2. /\ PreparedUnder(policy).ok
        /\ [j \in DOMAIN job.chunks |-> job.chunks[j].chunk] = chunks
    BY <2>1 DEF RowsInv, JobInv, MadeUnder
  <2>3. chunk = chunks[i] /\ i \in DOMAIN chunks
    <3> HIDE DEF chunks
    <3>1. QED
      BY <2>2
  <2> HIDE DEF chunk
  <2>4. CASE /\ file.bytes \in Images /\ file.bytes.format # "pdf"
             /\ PreparedUnder(policy) = prepare_image(file.bytes, OptionsOf(policy))
    <3>1. OptionsOf(policy).max_image_pixels = MAX_IMAGE_PIXELS
      BY DEF OptionsOf
    <3> DEFINE options1 == OptionsOf(policy)
    <3> HIDE DEF options1
    <3>2. PICK c, part : /\ prepare_image(file.bytes, options1).value = <<c>>
                         /\ c.parts = <<part>> /\ PictureWithin(part)
                         /\ c.truncated = file.bytes.animated
      <4>1. options1.max_image_pixels = MAX_IMAGE_PIXELS
        BY <3>1 DEF options1
      <4>2. prepare_image(file.bytes, options1).ok
        BY <2>2, <2>4 DEF options1
      <4>3. QED
        BY ONLY <2>4, <4>1, <4>2, ImageIsPrepared
    <3>3. chunk = c
      <4>1. chunks = <<c>>
        BY <2>4, <3>2 DEF options1
      <4> HIDE DEF chunks
      <4>2. QED
        BY <2>3, <4>1
    <3>4. (file.bytes.format # "pdf" /\ file.bytes.animated) = file.bytes.animated
      <4>1. file.bytes.animated \in BOOLEAN
        BY <2>4, ImagesTyped
      <4>2. QED
        BY <2>4, <4>1
    <3>5. chunk.truncated = (file.bytes.format # "pdf" /\ file.bytes.animated)
      BY <3>2, <3>3, <3>4, Zenon
    <3>6. parts = <<part>>
      BY <3>2, <3>3
    <3> HIDE DEF parts
    <3>7. parts # <<>> /\ \A k \in DOMAIN parts : PictureWithin(parts[k])
      BY <3>2, <3>6
    <3>8. QED
      BY <3>5, <3>7 DEF chunk, parts
  <2>5. CASE /\ file.bytes \in Pdfs /\ file.bytes.format = "pdf"
             /\ PreparedUnder(policy) = prepare_pdf(file.bytes, model, OptionsOf(policy))
    <3> DEFINE size == policy.pdf_pages_per_chunk
               count == Len(file.bytes.pages)
               ranges == page_ranges(count, size)
    <3>1. /\ count \in Nat \ {0} /\ size \in Nat \ {0} /\ policy.pdf_dpi \in Nat \ {0}
          /\ model.pdf_mode \in {"native", "raster"}
          /\ \E n \in Nat \ {0} : Covers(ranges, n, count, size) /\ Listing(chunks, n)
          /\ \A j \in DOMAIN ranges :
               /\ model.pdf_mode = "native" => NativeChunk(chunks[j], file.bytes, ranges[j])
               /\ model.pdf_mode = "raster" =>
                    RasterChunk(chunks[j], file.bytes, ranges[j], OptionsOf(policy))
      BY <2>1, <2>2, <2>5, PdfUnderPolicy
    <3> HIDE DEF ranges, chunks
    <3>2. PICK n \in Nat \ {0} : Covers(ranges, n, count, size) /\ Listing(chunks, n)
      BY <3>1
    <3>3. i \in 1..n /\ DOMAIN ranges = 1..n
      BY <2>3, <3>2, ListingIsSeq DEF Covers
    <3>4. PICK a \in Nat, b \in Nat :
            ranges[i] = <<a, b>> /\ a < b /\ b <= count
      <4>1. ranges[i] \in Nat \X Nat
        BY <3>2, <3>3 DEF Covers
      <4>2. ranges[i][1] < ranges[i][2] /\ ranges[i][2] <= count
        BY <3>2, <3>3 DEF Covers
      <4>3. QED
        BY <4>1, <4>2
    <3>5. CASE model.pdf_mode = "native"
      <4>1. PICK d : /\ b - a <= NATIVE_PAGES
                     /\ chunk = PdfChunk(<<a, b>>, <<Original(d, "application/pdf")>>)
                     /\ d.format = "pdf" /\ d.pages = SubSeq(file.bytes.pages, a + 1, b)
        <5>1. NativeChunk(chunk, file.bytes, <<a, b>>)
          BY <2>3, <3>1, <3>3, <3>4, <3>5
        <5>2. QED
          BY ONLY <5>1 DEF NativeChunk
      <4>2. /\ chunk.truncated = FALSE
            /\ parts = <<[mime_type |-> "application/pdf", bytes |-> d]>>
        BY <4>1 DEF PdfChunk, Original
      <4>3. Len(d.pages) = b - a /\ b - a \in 1..NATIVE_PAGES
        <5>1. \A k \in a + 1..b : file.bytes.pages[k] \in Contents
          BY <2>5, <3>4, PdfsTyped, ElementOfSeq
        <5>2. Len(d.pages) = IF a + 1 <= b THEN b - (a + 1) + 1 ELSE 0
          BY <4>1, <5>1, SubSeqProperties
        <5>3. QED
          BY <3>4, <4>1, <5>2 DEF NATIVE_PAGES
      <4> HIDE DEF parts
      <4>4. /\ parts # <<>> /\ Len(parts) = 1 /\ DOMAIN parts = {1}
            /\ parts[1].mime_type = "application/pdf" /\ parts[1].bytes = d
        BY <4>2
      <4>5. QED
        BY <2>5, <4>1, <4>2, <4>3, <4>4 DEF parts, chunk
    <3>6. CASE model.pdf_mode = "raster"
      <4>1. chunk = PdfChunk(<<a, b>>, [k \in 1..b - a |->
                                         Rendered(file.bytes, a + k, OptionsOf(policy))])
        <5>1. RasterChunk(chunk, file.bytes, <<a, b>>, OptionsOf(policy))
          BY <2>3, <3>1, <3>3, <3>4, <3>6
        <5>2. QED
          BY ONLY <5>1 DEF RasterChunk
      <4>2. /\ chunk.truncated = FALSE
            /\ parts = [k \in 1..b - a |-> Rendered(file.bytes, a + k, OptionsOf(policy))]
        BY <4>1 DEF PdfChunk
      <4> HIDE DEF parts
      <4>3. parts # <<>> /\ DOMAIN parts = 1..b - a
        <5>1. 1 \in 1..b - a
          BY <3>4
        <5>2. QED
          BY <4>2, <5>1
      <4>4. \A k \in 1..b - a : PictureWithin(parts[k])
        BY <3>1, <4>2, EncodedIsWithin DEF Rendered, OptionsOf
      <4>5. QED
        BY <2>5, <4>2, <4>3, <4>4 DEF parts, chunk
    <3>7. QED
      BY <3>1, <3>5, <3>6
  <2>6. QED
    BY <2>1, <2>2, <2>4, <2>5, MediaPrepared
<1>2. QED
  BY <1>1, RowsInductive, PTL

---------------------------------------------------------------------------
(* Joining the words of lines.                                             *)

Joins(f, g, n) == \A i \in 1..n : f[i] = IF i = 1 THEN g[i] ELSE f[i - 1] \o g[i]

\* What FlattenSeq is defined by exists.
LEMMA FlattenUnfolds ==
    ASSUME NEW W, NEW n \in Nat \ {0}, NEW g \in [1..n -> Seq(W)]
    PROVE  \E f \in [1..n -> Seq(W)] :
             FlattenSeq(g) = f[n] /\ Joins(f, g, n)
<1> DEFINE Solves(f, m) ==
             f = [i \in 1..m |-> IF i = 1 THEN g[i] ELSE f[i - 1] \o g[i]]
           Bad == {m \in 1..n : ~\E f \in [1..m -> Seq(W)] : Solves(f, m)}
<1>1. ASSUME Bad # {} PROVE FALSE
  <2>1. PICK m \in Bad : \A x \in Bad : m <= x
    <3>1. Bad \subseteq Nat
      <4> HIDE DEF Solves
      <4>1. QED
        OBVIOUS
    <3> HIDE DEF Bad
    <3>2. QED
      BY <1>1, <3>1, LeastOfNumbers
  <2>2. m \in 1..n /\ m \in Nat
    OBVIOUS
  <2>3. CASE m = 1
    <3> DEFINE f == [i \in 1..1 |-> g[i]]
    <3>1. f \in [1..1 -> Seq(W)]
      OBVIOUS
    <3>2. f = [i \in 1..1 |-> IF i = 1 THEN g[i] ELSE f[i - 1] \o g[i]]
      OBVIOUS
    <3>3. Solves(f, m)
      BY <2>3, <3>2
    <3>4. QED
      BY <2>1, <2>2, <2>3, <3>1, <3>3
  <2>4. CASE m # 1
    <3>1. m - 1 \in 1..n /\ m - 1 \notin Bad
      <4> HIDE DEF Bad
      <4>1. QED
        BY <2>1, <2>2, <2>4
    <3>2. PICK f \in [1..m - 1 -> Seq(W)] : Solves(f, m - 1)
      BY <3>1
    <3> DEFINE e == [i \in 1..m |-> IF i = m THEN f[m - 1] \o g[m] ELSE f[i]]
    <3>3. e \in [1..m -> Seq(W)]
      <4>1. f[m - 1] \o g[m] \in Seq(W)
        BY <2>2, <2>4, <3>1, ConcatProperties
      <4>2. ASSUME NEW i \in 1..m, i # m PROVE f[i] \in Seq(W)
        BY <2>2, <4>2
      <4>3. QED
        BY <4>1, <4>2
    <3>4. ASSUME NEW i \in 1..m
          PROVE  e[i] = IF i = 1 THEN g[i] ELSE e[i - 1] \o g[i]
      <4>1. CASE i = m
        <5>1. e[m] = f[m - 1] \o g[m] /\ m \in 1..m /\ m - 1 \in 1..m
          BY <2>2, <2>4
        <5>2. e[m - 1] = f[m - 1]
          BY <2>2, <5>1
        <5> HIDE DEF e
        <5>3. QED
          BY <2>4, <4>1, <5>1, <5>2
      <4>2. CASE i # m
        <5>1. i \in 1..m - 1
          BY <2>2, <4>2
        <5>2. f[i] = IF i = 1 THEN g[i] ELSE f[i - 1] \o g[i]
          BY <3>2, <5>1
        <5>3. e[i] = f[i] /\ (i # 1 => e[i - 1] = f[i - 1])
          BY <2>2, <5>1
        <5>4. QED
          BY <5>2, <5>3
      <4>3. QED
        BY <4>1, <4>2
    <3>5. Solves(e, m)
      <4>1. e = [i \in 1..m |-> e[i]]
        OBVIOUS
      <4> HIDE DEF e
      <4>2. QED
        BY <3>4, <4>1
    <3> HIDE DEF e
    <3>6. QED
      BY <2>1, <2>2, <3>3, <3>5
  <2>5. QED
    BY <2>3, <2>4
<1>2. \E f \in [1..n -> Seq(W)] : Solves(f, n)
  <2>1. Bad = {}
    <3> HIDE DEF Bad
    <3>1. QED
      BY <1>1
  <2> HIDE DEF Solves
  <2>2. QED
    BY <2>1
<1> DEFINE flatten == CHOOSE f : Solves(f, n)
<1>3. Len(g) = n
  OBVIOUS
<1>4. Solves(flatten, n)
  BY <1>2
<1>5. FlattenSeq(g) = flatten[n]
  BY <1>3 DEF FlattenSeq
<1>6. ASSUME NEW h, Solves(h, n) PROVE h \in [1..n -> Seq(W)] /\ Joins(h, g, n)
  <2> DEFINE Untyped == {m \in 1..n : h[m] \notin Seq(W)}
  <2>1. \A i \in 1..n : h[i] = IF i = 1 THEN g[i] ELSE h[i - 1] \o g[i]
    <3> DEFINE e == [i \in 1..n |-> IF i = 1 THEN g[i] ELSE h[i - 1] \o g[i]]
    <3>1. h = e
      BY <1>6
    <3>2. \A i \in 1..n : e[i] = IF i = 1 THEN g[i] ELSE h[i - 1] \o g[i]
      OBVIOUS
    <3> HIDE DEF e
    <3>3. QED
      BY <3>1, <3>2
  <2>2. ASSUME Untyped # {} PROVE FALSE
    <3>1. Untyped \subseteq Nat
      OBVIOUS
    <3>2. PICK m \in Untyped : \A x \in Untyped : m <= x
      <4> HIDE DEF Untyped
      <4>1. QED
        BY <2>2, <3>1, LeastOfNumbers
    <3>3. m \in 1..n /\ g[m] \in Seq(W)
      OBVIOUS
    <3>4. m # 1
      BY <2>1, <3>3
    <3>5. m - 1 \in 1..n /\ h[m - 1] \in Seq(W)
      BY <3>2, <3>3, <3>4
    <3>6. h[m] \in Seq(W)
      <4>1. h[m] = h[m - 1] \o g[m]
        BY <2>1, <3>3, <3>4
      <4>2. h[m - 1] \o g[m] \in Seq(W)
        BY <3>3, <3>5, ConcatProperties
      <4>3. QED
        BY <4>1, <4>2
    <3>7. QED
      BY <3>6
  <2>3. DOMAIN h = 1..n /\ h = [i \in DOMAIN h |-> h[i]]
    BY <1>6
  <2>4. QED
    BY <2>1, <2>2, <2>3 DEF Joins
<1> HIDE DEF Solves, flatten
<1>7. QED
  BY <1>4, <1>5, <1>6

\* Joined step by step.
LEMMA FlattenGrows ==
    ASSUME NEW W, NEW n \in Nat, NEW g \in [1..n + 1 -> Seq(W)]
    PROVE  /\ FlattenSeq(g) = FlattenSeq([i \in 1..n |-> g[i]]) \o g[n + 1]
           /\ FlattenSeq([i \in 1..n |-> g[i]]) \in Seq(W)
<1> DEFINE h == [i \in 1..n |-> g[i]]
<1>1. h \in [1..n -> Seq(W)] /\ n + 1 \in Nat \ {0}
  OBVIOUS
<1>2. PICK f \in [1..n + 1 -> Seq(W)] : FlattenSeq(g) = f[n + 1] /\ Joins(f, g, n + 1)
  BY <1>1, FlattenUnfolds
<1>3. \A i \in 1..n + 1 : f[i] = IF i = 1 THEN g[i] ELSE f[i - 1] \o g[i]
  BY <1>2 DEF Joins
<1>4. CASE n = 0
  <2>1. h = <<>> /\ FlattenSeq(h) = <<>>
    BY <1>4 DEF FlattenSeq
  <2>2. f[1] = g[1] /\ g[1] \in Seq(W)
    BY <1>3, <1>4
  <2>3. <<>> \o g[1] = g[1] /\ <<>> \in Seq(W)
    BY <2>2, ConcatEmptySeq, EmptySeq
  <2> HIDE DEF h
  <2>4. FlattenSeq(g) = FlattenSeq(h) \o g[n + 1] /\ FlattenSeq(h) \in Seq(W)
    <3>1. n + 1 = 1
      BY <1>4
    <3>2. FlattenSeq(g) = f[1]
      BY <1>2, <3>1
    <3>3. QED
      BY <2>1, <2>2, <2>3, <3>1, <3>2
  <2>5. QED
    BY <2>4 DEF h
<1>5. CASE n # 0
  <2>1. PICK k \in [1..n -> Seq(W)] : FlattenSeq(h) = k[n] /\ Joins(k, h, n)
    <3> HIDE DEF h
    <3>1. QED
      BY <1>1, <1>5, FlattenUnfolds
  <2>2. \A i \in 1..n : k[i] = IF i = 1 THEN g[i] ELSE k[i - 1] \o g[i]
    BY <2>1 DEF Joins
  <2> DEFINE Bad == {m \in 1..n : k[m] # f[m]}
  <2>3. ASSUME Bad # {} PROVE FALSE
    <3>1. Bad \subseteq Nat
      OBVIOUS
    <3>2. PICK m \in Bad : \A x \in Bad : m <= x
      <4> HIDE DEF Bad
      <4>1. QED
        BY <2>3, <3>1, LeastOfNumbers
    <3>3. m \in 1..n /\ m \in 1..n + 1 /\ m \in Nat
      OBVIOUS
    <3>4. CASE m = 1
      BY <1>3, <2>2, <3>3, <3>4
    <3>5. CASE m # 1
      <4>1. m - 1 \in 1..n /\ k[m - 1] = f[m - 1]
        BY <3>2, <3>3, <3>5
      <4>2. k[m] = f[m]
        BY <1>3, <2>2, <3>3, <3>5, <4>1
      <4>3. QED
        BY <4>2
    <3>6. QED
      BY <3>4, <3>5
  <2>4. k[n] = f[n]
    <3>1. n \in 1..n /\ Bad = {}
      BY <1>5, <2>3
    <3>2. n \notin Bad
      BY <3>1
    <3>3. QED
      BY <3>1, <3>2
  <2>5. f[n + 1] = f[n] \o g[n + 1]
    <3>1. n + 1 \in 1..n + 1 /\ n + 1 # 1 /\ (n + 1) - 1 = n
      BY <1>5
    <3>2. QED
      BY <1>3, <3>1
  <2>6. k[n] \in Seq(W)
    BY <1>5
  <2> HIDE DEF h
  <2>7. FlattenSeq(h) \in Seq(W) /\ FlattenSeq(g) = FlattenSeq(h) \o g[n + 1]
    BY <1>2, <2>1, <2>4, <2>5, <2>6
  <2>8. QED
    BY <2>7 DEF h
<1>6. QED
  BY <1>4, <1>5

---------------------------------------------------------------------------
(* The words of a document.                                                *)

Word == Nat \X Nat
DocTyped == doc \in Seq(Line)

\* A note as it may be, of any length.
Notes == [utf8 : BOOLEAN, lines : Seq(Line)]

\* The text is what the bytes decode to.
DocRead == doc = from_utf8(markdown)
Upto(n) == FlattenSeq([i \in 1..n |-> Words(i)])
Count(n) == Len(Upto(n))

LEMMA LineTyped ==
    ASSUME DocTyped, NEW n \in 1..Len(doc)
    PROVE  /\ doc[n] \in Line /\ n \in Nat /\ Len(doc) \in Nat
           /\ doc[n].words \in Nat /\ doc[n].level \in 0..4
           /\ doc[n].kind \in {"heading", "prose", "fence"}
           /\ doc[n].kind = "heading" => doc[n].level \in 1..4 /\ doc[n].words \in Nat \ {0}
           /\ doc[n].kind # "heading" => doc[n].level = 0
           /\ Words(n) \in Seq(Word) /\ Len(Words(n)) = doc[n].words
           /\ \A j \in 1..doc[n].words : Words(n)[j] = <<n, j>>
<1>1. doc[n] \in Line /\ Len(doc) \in Nat /\ n \in Nat
  BY ElementOfSeq, LenProperties DEF DocTyped
<1>2. /\ doc[n].words \in Nat /\ doc[n].level \in 0..4
      /\ doc[n].kind \in {"heading", "prose", "fence"}
      /\ doc[n].kind = "heading" => doc[n].level \in 1..4 /\ doc[n].words \in Nat \ {0}
      /\ doc[n].kind # "heading" => doc[n].level = 0
  <2> DEFINE d == doc[n]
  <2>5. (\A w \in HeadingWords : w \in Nat \ {0}) /\ (\A w \in ProseWords : w \in Nat)
    BY ChunkerAssumption
  <2> HIDE DEF d
  <2>1. CASE d \in [kind : {"heading"}, level : 1..4, words : HeadingWords]
    <3>1. d.kind = "heading" /\ d.level \in 1..4 /\ d.words \in HeadingWords
      BY <2>1
    <3>2. QED
      BY <2>5, <3>1 DEF d
  <2>2. CASE d \in [kind : {"prose"}, level : {0}, words : ProseWords]
    <3>1. d.kind = "prose" /\ d.level = 0 /\ d.words \in ProseWords
      BY <2>2
    <3>2. QED
      BY <2>5, <3>1 DEF d
  <2>3. CASE d \in [kind : {"fence"}, level : {0}, words : {1}]
    BY <2>3 DEF d
  <2>4. QED
    BY <1>1, <2>1, <2>2, <2>3 DEF Line, d
<1>3. /\ Words(n) \in [1..doc[n].words -> Word]
      /\ \A j \in 1..doc[n].words : Words(n)[j] = <<n, j>>
  BY <1>1, <1>2 DEF Words, Word
<1>4. Words(n) \in Seq(Word)
  BY <1>2, <1>3
<1>5. QED
  BY <1>1, <1>2, <1>3, <1>4

LEMMA UptoGrows ==
    ASSUME DocTyped, NEW n \in 0..Len(doc) - 1
    PROVE  /\ Upto(n) \in Seq(Word)
           /\ Upto(n + 1) = Upto(n) \o Words(n + 1)
           /\ Upto(n + 1) \in Seq(Word)
           /\ Count(n) \in Nat /\ Count(n + 1) = Count(n) + doc[n + 1].words
<1> DEFINE g == [i \in 1..n + 1 |-> Words(i)]
<1>1. n \in Nat /\ Len(doc) \in Nat /\ n + 1 \in 1..Len(doc)
  BY LenProperties DEF DocTyped
<1>2. g \in [1..n + 1 -> Seq(Word)]
  BY <1>1, LineTyped
<1>3. [i \in 1..n |-> g[i]] = [i \in 1..n |-> Words(i)] /\ g[n + 1] = Words(n + 1)
  BY <1>1
<1> HIDE DEF g
<1>4. Upto(n) \in Seq(Word) /\ FlattenSeq(g) = Upto(n) \o Words(n + 1)
  BY <1>1, <1>2, <1>3, FlattenGrows DEF Upto
<1>5. Upto(n + 1) = FlattenSeq(g)
  BY DEF Upto, g
<1>6. QED
  <2>1. Words(n + 1) \in Seq(Word) /\ Len(Words(n + 1)) = doc[n + 1].words
    BY <1>1, LineTyped
  <2>2. /\ Upto(n) \o Words(n + 1) \in Seq(Word)
        /\ Len(Upto(n) \o Words(n + 1)) = Len(Upto(n)) + Len(Words(n + 1))
    BY <1>4, <2>1, ConcatProperties
  <2>3. Len(Upto(n)) \in Nat
    BY <1>4, LenProperties
  <2>4. QED
    BY <1>4, <1>5, <2>1, <2>2, <2>3 DEF Count

LEMMA UptoNone == Upto(0) = <<>> /\ Count(0) = 0
<1>1. [i \in 1..0 |-> Words(i)] = <<>>
  OBVIOUS
<1>2. QED
  BY <1>1, EmptySeq DEF Upto, Count, FlattenSeq

LEMMA UptoTyped ==
    ASSUME DocTyped, NEW n \in 0..Len(doc)
    PROVE  Upto(n) \in Seq(Word) /\ Count(n) \in Nat
<1>1. CASE n = 0
  <2>1. <<>> \in Seq(Word)
    BY EmptySeq
  <2>2. Upto(n) = <<>> /\ Count(n) = 0
    BY <1>1, UptoNone, Zenon
  <2>3. QED
    BY <2>1, <2>2
<1>2. CASE n # 0
  <2>1. n - 1 \in 0..Len(doc) - 1 /\ (n - 1) + 1 = n
    BY <1>2, LenProperties DEF DocTyped
  <2>2. QED
    BY <2>1, UptoGrows, LenProperties DEF Count
<1>3. QED
  BY <1>1, <1>2

\* The words of the first lines are a prefix of those of more lines.
LEMMA UptoIsPrefix ==
    ASSUME DocTyped, NEW m \in 0..Len(doc), NEW n \in m..Len(doc)
    PROVE  /\ Count(m) <= Count(n)
           /\ \A p \in 1..Count(m) : Upto(n)[p] = Upto(m)[p]
<1> DEFINE Holds(k) == /\ Count(m) <= Count(k)
                       /\ \A p \in 1..Count(m) : Upto(k)[p] = Upto(m)[p]
           Bad == {k \in m..Len(doc) : ~Holds(k)}
<1>1. Len(doc) \in Nat /\ m \in Nat
  BY LenProperties DEF DocTyped
<1>2. ASSUME Bad # {} PROVE FALSE
  <2>1. Bad \subseteq Nat
    <3> HIDE DEF Holds
    <3>1. QED
      BY <1>1
  <2>2. PICK k \in Bad : \A x \in Bad : k <= x
    <3> HIDE DEF Bad
    <3>1. QED
      BY <1>2, <2>1, LeastOfNumbers
  <2>3. k \in m..Len(doc) /\ ~Holds(k)
    OBVIOUS
  <2>4. CASE k = m
    BY <2>3, <2>4, UptoTyped
  <2>5. CASE k # m
    <3>1. k - 1 \in m..Len(doc) /\ k - 1 \in 0..Len(doc) - 1 /\ k \in 0..Len(doc)
          /\ k \in 1..Len(doc) /\ k - 1 \in 0..Len(doc)
      BY <1>1, <2>3, <2>5
    <3>2. k - 1 \notin Bad
      <4> HIDE DEF Bad
      <4>1. QED
        BY <2>2, <2>3, <3>1
    <3>3. Holds(k - 1)
      BY <3>1, <3>2
    <3>4. /\ Upto(k) = Upto(k - 1) \o Words(k) /\ Upto(k - 1) \in Seq(Word)
          /\ Count(k - 1) \in Nat /\ Count(k) = Count(k - 1) + doc[k].words
          /\ Words(k) \in Seq(Word) /\ doc[k].words \in Nat /\ Count(m) \in Nat
      <4>1. (k - 1) + 1 = k
        BY <1>1, <2>3
      <4>2. QED
        BY <3>1, <4>1, UptoGrows, UptoTyped, LineTyped
    <3>5. \A p \in 1..Count(k - 1) : Upto(k)[p] = Upto(k - 1)[p]
      <4>1. \A p \in 1..Len(Upto(k - 1)) + Len(Words(k)) :
              Upto(k)[p] = IF p <= Len(Upto(k - 1)) THEN Upto(k - 1)[p]
                           ELSE Words(k)[p - Len(Upto(k - 1))]
        BY <3>4, ConcatProperties
      <4>2. Len(Words(k)) \in Nat
        BY <3>4, LenProperties
      <4>3. QED
        BY <3>4, <4>1, <4>2 DEF Count
    <3>6. Holds(k)
      <4>1. Count(m) <= Count(k - 1) /\ Count(m) <= Count(k)
        BY <3>3, <3>4
      <4>2. ASSUME NEW p \in 1..Count(m) PROVE Upto(k)[p] = Upto(m)[p]
        <5>1. p \in 1..Count(k - 1)
          BY <3>4, <4>1
        <5>2. QED
          BY <3>3, <3>5, <5>1
      <4>3. QED
        BY <4>1, <4>2
    <3>7. QED
      BY <2>3, <3>6
  <2>6. QED
    BY <2>4, <2>5
<1>3. QED
  BY <1>1, <1>2

\* Each place of the text has its word: the j-th of line n comes after the lines
\* before.
LEMMA WordAt ==
    ASSUME DocTyped, NEW n \in 1..Len(doc), NEW j \in 1..doc[n].words
    PROVE  /\ Count(n - 1) + j \in Count(n - 1) + 1..Count(n)
           /\ Count(n - 1) + j \in 1..Len(AllWords)
           /\ AllWords[Count(n - 1) + j] = <<n, j>>
<1>1. /\ Len(doc) \in Nat /\ n \in Nat /\ n - 1 \in 0..Len(doc) - 1 /\ (n - 1) + 1 = n
      /\ n \in 0..Len(doc) /\ Len(doc) \in n..Len(doc)
  BY LenProperties DEF DocTyped
<1>2. AllWords = Upto(Len(doc))
  <2>1. DOMAIN doc = 1..Len(doc)
    BY LenProperties DEF DocTyped
  <2>2. QED
    BY <2>1 DEF AllWords, Upto
<1>3. /\ Upto(n - 1) \in Seq(Word) /\ Upto(n) = Upto(n - 1) \o Words(n)
      /\ Count(n - 1) \in Nat /\ Count(n) = Count(n - 1) + doc[n].words
  BY <1>1, UptoGrows
<1>4. /\ doc[n].words \in Nat /\ Words(n) \in Seq(Word) /\ Len(Words(n)) = doc[n].words
      /\ Words(n)[j] = <<n, j>>
  BY LineTyped
<1>5. Upto(n)[Count(n - 1) + j] = <<n, j>>
  <2>1. \A p \in 1..Len(Upto(n - 1)) + Len(Words(n)) :
          Upto(n)[p] = IF p <= Len(Upto(n - 1)) THEN Upto(n - 1)[p]
                       ELSE Words(n)[p - Len(Upto(n - 1))]
    BY <1>3, <1>4, ConcatProperties
  <2>2. \A p \in 1..Count(n - 1) + doc[n].words :
          Upto(n)[p] = IF p <= Count(n - 1) THEN Upto(n - 1)[p] ELSE Words(n)[p - Count(n - 1)]
    BY <1>4, <2>1 DEF Count
  <2>3. /\ Count(n - 1) + j \in 1..Count(n - 1) + doc[n].words
        /\ ~(Count(n - 1) + j <= Count(n - 1)) /\ (Count(n - 1) + j) - Count(n - 1) = j
    BY <1>3, <1>4
  <2>4. QED
    BY <1>4, <2>2, <2>3
<1>6. /\ Count(n) <= Count(Len(doc)) /\ Count(Len(doc)) = Len(AllWords)
      /\ \A p \in 1..Count(n) : AllWords[p] = Upto(n)[p]
  BY <1>1, <1>2, UptoIsPrefix DEF Count
<1>7. Count(Len(doc)) \in Nat
  BY <1>1, UptoTyped
<1>8. /\ Count(n - 1) + j \in Count(n - 1) + 1..Count(n)
      /\ Count(n - 1) + j \in 1..Count(n)
      /\ Count(n - 1) + j \in 1..Count(Len(doc))
  <2>1. /\ Count(n - 1) \in Nat /\ doc[n].words \in Nat /\ Count(Len(doc)) \in Nat
        /\ Count(n) = Count(n - 1) + doc[n].words /\ Count(n) <= Count(Len(doc))
    BY <1>3, <1>4, <1>6, <1>7
  <2>2. QED
    BY ONLY <2>1
<1>9. QED
  BY <1>5, <1>6, <1>8

\* Conversely, each place is of a line, and no two places have the same word.
LEMMA PlaceOfWord ==
    ASSUME DocTyped, NEW p \in 1..Len(AllWords)
    PROVE  \E n \in 1..Len(doc) : \E j \in 1..doc[n].words :
             p = Count(n - 1) + j /\ AllWords[p] = <<n, j>>
<1> DEFINE After == {m \in 0..Len(doc) : Count(m) >= p}
<1>1. Len(doc) \in Nat /\ DOMAIN doc = 1..Len(doc)
  BY LenProperties DEF DocTyped
<1>2. Len(AllWords) = Count(Len(doc))
  BY <1>1 DEF AllWords, Upto, Count
<1>3. After \subseteq Nat /\ Len(doc) \in After
  BY <1>1, <1>2, UptoTyped
<1>4. PICK n \in After : \A m \in After : n <= m
  <2> HIDE DEF After
  <2>1. QED
    BY <1>3, LeastOfNumbers
<1>5. n # 0
  <2>1. Count(0) = 0
    BY UptoNone
  <2>2. QED
    BY <2>1
<1>6. n \in 1..Len(doc) /\ n - 1 \in 0..Len(doc) - 1 /\ n - 1 \in 0..Len(doc) /\ (n - 1) + 1 = n
  BY <1>1, <1>5
<1>7. n - 1 \notin After
  <2> HIDE DEF After
  <2>1. QED
    BY <1>3, <1>4, <1>6
<1>8. Count(n - 1) \in Nat /\ doc[n].words \in Nat /\ Count(n) = Count(n - 1) + doc[n].words
  BY <1>6, UptoGrows, LineTyped
<1>9. Count(n - 1) < p /\ p <= Count(n)
  BY <1>6, <1>7, <1>8
<1>10. p - Count(n - 1) \in 1..doc[n].words /\ p = Count(n - 1) + (p - Count(n - 1))
  BY <1>8, <1>9
<1>11. QED
  BY <1>6, <1>10, WordAt

LEMMA WordsTyped ==
    ASSUME DocTyped
    PROVE  /\ AllWords \in Seq(Word) /\ Len(AllWords) \in Nat
           /\ Len(AllWords) = Count(Len(doc))
           /\ \A p, q \in 1..Len(AllWords) : AllWords[p] = AllWords[q] => p = q
<1>1. Len(doc) \in Nat /\ DOMAIN doc = 1..Len(doc)
  BY LenProperties DEF DocTyped
<1>2. Len(AllWords) = Count(Len(doc)) /\ AllWords = Upto(Len(doc))
  BY <1>1 DEF AllWords, Upto, Count
<1>3. AllWords \in Seq(Word)
  BY <1>1, <1>2, UptoTyped
<1>4. ASSUME NEW p \in 1..Len(AllWords), NEW q \in 1..Len(AllWords),
             AllWords[p] = AllWords[q]
      PROVE  p = q
  <2>1. PICK n \in 1..Len(doc) : \E j \in 1..doc[n].words :
          p = Count(n - 1) + j /\ AllWords[p] = <<n, j>>
    BY PlaceOfWord
  <2>2. PICK m \in 1..Len(doc) : \E k \in 1..doc[m].words :
          q = Count(m - 1) + k /\ AllWords[q] = <<m, k>>
    BY PlaceOfWord
  <2>3. QED
    BY <1>4, <2>1, <2>2
<1>5. QED
  BY <1>2, <1>3, <1>4, LenProperties

\* Pieces of the text.
Part(x, y) == SubSeq(AllWords, x + 1, y)

LEMMA PartIs ==
    ASSUME DocTyped, NEW x \in Nat, NEW y \in x..Len(AllWords)
    PROVE  /\ Part(x, y) \in Seq(Word) /\ Len(Part(x, y)) = y - x
           /\ \A p \in 1..y - x : Part(x, y)[p] = AllWords[x + p]
<1>1. Len(AllWords) \in Nat /\ y \in Nat /\ AllWords \in Seq(Word)
  BY WordsTyped
<1>2. \A i \in x + 1..y : AllWords[i] \in Word
  BY <1>1, ElementOfSeq
<1>3. /\ Part(x, y) \in Seq(Word)
      /\ Len(Part(x, y)) = IF x + 1 <= y THEN y - (x + 1) + 1 ELSE 0
      /\ \A p \in 1..y - (x + 1) + 1 : Part(x, y)[p] = AllWords[(x + 1) + p - 1]
  BY <1>1, <1>2, SubSeqProperties DEF Part
<1>4. QED
  BY <1>1, <1>3

LEMMA PartsJoin ==
    ASSUME DocTyped, NEW x \in Nat, NEW y \in x..Len(AllWords), NEW z \in y..Len(AllWords)
    PROVE  Part(x, y) \o Part(y, z) = Part(x, z)
<1>1. Len(AllWords) \in Nat /\ AllWords \in Seq(Word)
  BY WordsTyped
<1>2. x + 1 \in 1..Len(AllWords) + 1 /\ y \in (x + 1) - 1..Len(AllWords)
  BY <1>1
<1>3. QED
  BY <1>1, <1>2, ConcatAdjacentSubSeq DEF Part

LEMMA CountGrows ==
    ASSUME DocTyped, NEW m \in 0..Len(doc), NEW n \in m..Len(doc)
    PROVE  /\ Count(m) \in Nat /\ Count(n) \in Nat
           /\ Count(m) <= Count(n) /\ Count(n) <= Len(AllWords)
<1>1. n \in 0..Len(doc) /\ Len(doc) \in n..Len(doc) /\ Len(doc) \in Nat
  BY LenProperties DEF DocTyped
<1>2. QED
  BY <1>1, UptoTyped, UptoIsPrefix, WordsTyped

LEMMA LineIsPart ==
    ASSUME DocTyped, NEW n \in 1..Len(doc)
    PROVE  /\ Words(n) = Part(Count(n - 1), Count(n))
           /\ Count(n) = Count(n - 1) + doc[n].words /\ doc[n].words \in Nat
<1>1. /\ Len(doc) \in Nat /\ n \in Nat /\ n - 1 \in 0..Len(doc) - 1 /\ (n - 1) + 1 = n
      /\ n - 1 \in 0..Len(doc) /\ n \in n - 1..Len(doc)
  BY LenProperties DEF DocTyped
<1>2. /\ Count(n - 1) \in Nat /\ Count(n) = Count(n - 1) + doc[n].words
      /\ doc[n].words \in Nat /\ Words(n) \in Seq(Word) /\ Len(Words(n)) = doc[n].words
      /\ \A j \in 1..doc[n].words : Words(n)[j] = <<n, j>>
  BY <1>1, UptoGrows, LineTyped
<1>3. Count(n) \in Count(n - 1)..Len(AllWords)
  BY <1>1, <1>2, CountGrows
<1>4. /\ Part(Count(n - 1), Count(n)) \in Seq(Word)
      /\ Len(Part(Count(n - 1), Count(n))) = Count(n) - Count(n - 1)
      /\ \A p \in 1..Count(n) - Count(n - 1) :
           Part(Count(n - 1), Count(n))[p] = AllWords[Count(n - 1) + p]
  BY <1>2, <1>3, PartIs
<1>5. Count(n) - Count(n - 1) = doc[n].words
  BY <1>2
<1>6. \A j \in 1..doc[n].words : Part(Count(n - 1), Count(n))[j] = Words(n)[j]
  BY <1>2, <1>4, <1>5, WordAt
<1>7. QED
  BY <1>2, <1>4, <1>5, <1>6, SeqEqual

Span(a, b) == FlattenSeq([i \in 1..b - a + 1 |-> Words(a + i - 1)])

\* Consecutive lines.
LEMMA SpanIsPart ==
    ASSUME DocTyped, NEW a \in 1..Len(doc), NEW b \in a - 1..Len(doc)
    PROVE  Span(a, b) = Part(Count(a - 1), Count(b))
<1> DEFINE Holds(n) == Span(a, n) = Part(Count(a - 1), Count(n))
           Bad == {n \in a - 1..Len(doc) : ~Holds(n)}
<1>1. Len(doc) \in Nat /\ a \in Nat \ {0} /\ a - 1 \in 0..Len(doc)
  BY LenProperties DEF DocTyped
<1>2. ASSUME Bad # {} PROVE FALSE
  <2>1. Bad \subseteq Nat
    <3> HIDE DEF Holds
    <3>1. QED
      BY <1>1
  <2>2. PICK n \in Bad : \A x \in Bad : n <= x
    <3> HIDE DEF Bad
    <3>1. QED
      BY <1>2, <2>1, LeastOfNumbers
  <2>3. n \in a - 1..Len(doc) /\ ~Holds(n) /\ n \in Nat
    <3> HIDE DEF Holds
    <3>1. QED
      BY <1>1
  <2>4. CASE n = a - 1
    <3>1. [i \in 1..n - a + 1 |-> Words(a + i - 1)] = <<>>
      BY <1>1, <2>4
    <3>2. Span(a, n) = <<>>
      BY <3>1, EmptySeq DEF Span, FlattenSeq
    <3>3. Count(a - 1) \in Nat
      BY <1>1, UptoTyped
    <3>4. Part(Count(a - 1), Count(n)) = <<>>
      BY <2>4, <3>3, SubSeqEmpty DEF Part
    <3>5. QED
      BY <2>3, <3>2, <3>4
  <2>5. CASE n # a - 1
    <3>1. /\ n - 1 \in a - 1..Len(doc) /\ n \in 1..Len(doc) /\ n \in n - 1..Len(doc)
          /\ n - 1 \in 0..Len(doc)
      BY <1>1, <2>3, <2>5
    <3>2. Holds(n - 1)
      <4>1. n - 1 \notin Bad
        <5> HIDE DEF Bad
        <5>1. QED
          BY <2>2, <2>3
      <4> HIDE DEF Holds
      <4>2. QED
        BY <3>1, <4>1
    <3> DEFINE k == n - a
               g == [i \in 1..k + 1 |-> Words(a + i - 1)]
    <3>3. k \in Nat /\ g \in [1..k + 1 -> Seq(Word)]
      <4>1. k \in Nat
        BY <1>1, <2>3, <2>5
      <4>2. \A i \in 1..k + 1 : a + i - 1 \in 1..Len(doc)
        BY <1>1, <2>3, <2>5
      <4>3. QED
        BY <4>1, <4>2, LineTyped
    <3>4. Span(a, n) = FlattenSeq([i \in 1..k |-> g[i]]) \o g[k + 1]
      <4>1. Span(a, n) = FlattenSeq(g)
        <5>1. n - a + 1 = k + 1
          OBVIOUS
        <5>2. QED
          BY <5>1 DEF Span
      <4> HIDE DEF g, k
      <4>2. QED
        BY <3>3, <4>1, FlattenGrows
    <3>5. FlattenSeq([i \in 1..k |-> g[i]]) = Span(a, n - 1)
      <4>1. (n - 1) - a + 1 = k
        BY <1>1, <2>3
      <4>2. [i \in 1..k |-> g[i]] = [i \in 1..k |-> Words(a + i - 1)]
        BY <3>3
      <4>3. QED
        BY <4>1, <4>2 DEF Span
    <3>6. g[k + 1] = Words(n)
      <4>1. k + 1 \in 1..k + 1 /\ a + (k + 1) - 1 = n
        BY <1>1, <2>3, <3>3
      <4>2. QED
        BY <4>1
    <3> HIDE DEF g, k
    <3>7. Span(a, n) = Part(Count(a - 1), Count(n - 1)) \o Part(Count(n - 1), Count(n))
      BY <3>1, <3>2, <3>4, <3>5, <3>6, LineIsPart
    <3>8. Part(Count(a - 1), Count(n - 1)) \o Part(Count(n - 1), Count(n)) = Part(Count(a - 1), Count(n))
      <4>1. /\ Count(a - 1) \in Nat /\ Count(n - 1) \in Count(a - 1)..Len(AllWords)
            /\ Count(n) \in Count(n - 1)..Len(AllWords)
        BY <1>1, <3>1, CountGrows, WordsTyped
      <4>2. QED
        BY <4>1, PartsJoin
    <3>9. QED
      BY <2>3, <3>7, <3>8
  <2>6. QED
    BY <2>4, <2>5
<1>3. QED
  BY <1>1, <1>2

---------------------------------------------------------------------------
(* The headings that split.                                                *)

Fences(n) == {f \in 1..n : doc[f].kind = "fence"}

LEMMA BoundaryIs ==
    ASSUME DocTyped
    PROVE  \A n : n \in Boundaries <=>
             /\ n \in 1..Len(doc) /\ doc[n].level \in 1..3
             /\ Cardinality(Fences(n - 1)) % 2 = 0
<1>1. DOMAIN doc = 1..Len(doc)
  BY LenProperties DEF DocTyped
<1>2. QED
  BY <1>1 DEF Boundaries, Fences

\* Another line opens or closes a fence, or does neither.
LEMMA FencesCounted ==
    ASSUME DocTyped, NEW n \in 1..Len(doc)
    PROVE  /\ Cardinality(Fences(n - 1)) \in Nat
           /\ Cardinality(Fences(n)) =
                Cardinality(Fences(n - 1)) + (IF doc[n].kind = "fence" THEN 1 ELSE 0)
<1>1. n \in Nat /\ n - 1 \in Nat
  BY LineTyped
<1>2. IsFiniteSet(1..n - 1)
  BY <1>1, FS_Interval
<1>3. IsFiniteSet(Fences(n - 1)) /\ Cardinality(Fences(n - 1)) \in Nat
  <2>1. Fences(n - 1) \in SUBSET (1..n - 1)
    BY DEF Fences
  <2>2. IsFiniteSet(Fences(n - 1))
    BY <1>2, <2>1, FS_Subset
  <2>3. QED
    BY <2>2, FS_CardinalityType
<1>4. CASE doc[n].kind = "fence"
  <2>1. Fences(n) = Fences(n - 1) \cup {n} /\ n \notin Fences(n - 1)
    BY <1>1, <1>4 DEF Fences
  <2>2. Cardinality(Fences(n - 1) \cup {n}) = Cardinality(Fences(n - 1)) + 1
    BY <1>3, <2>1, FS_AddElement
  <2>3. QED
    BY <1>3, <1>4, <2>1, <2>2
<1>5. CASE doc[n].kind # "fence"
  <2>1. Fences(n) = Fences(n - 1)
    BY <1>1, <1>5 DEF Fences
  <2>2. QED
    BY <1>3, <1>5, <2>1
<1>6. QED
  BY <1>4, <1>5

HeadOf(a) == IF a \in Boundaries THEN a ELSE 0

\* From a heading that splits, or the first line, to before the next.
SectionSpan(a, b) ==
    /\ a \in 1..Len(doc) /\ b \in a..Len(doc)
    /\ a = 1 \/ a \in Boundaries
    /\ \A g \in Boundaries : ~(a < g /\ g <= b)

LEMMA HeadingIs ==
    ASSUME DocTyped, NEW n \in 1..Len(doc)
    PROVE  /\ HeadingOf(n) \in 0..n
           /\ HeadingOf(n) = 0 \/ HeadingOf(n) \in Boundaries
           /\ \A g \in Boundaries : g <= n => g <= HeadingOf(n)
<1> DEFINE Above == Boundaries \cap 1..n
<1>1. n \in Nat /\ Above \subseteq Nat /\ \A g \in Above : g <= n
  BY LineTyped
<1>2. \E h \in Above \cup {0} : \A g \in Above : g <= h
  <2>1. CASE Above = {}
    BY <2>1
  <2>2. CASE Above # {}
    <3> HIDE DEF Above
    <3>1. \E h \in Above : \A g \in Above : g <= h
      BY <1>1, <2>2, GreatestOfNumbers
    <3>2. QED
      BY <3>1
  <2>3. QED
    BY <2>1, <2>2
<1>3. HeadingOf(n) \in Above \cup {0} /\ \A g \in Above : g <= HeadingOf(n)
  <2> DEFINE h == CHOOSE h \in Above \cup {0} : \A g \in Above : g <= h
  <2>1. h \in Above \cup {0} /\ \A g \in Above : g <= h
    <3> HIDE DEF Above
    <3>1. QED
      BY <1>2
  <2>2. HeadingOf(n) = h
    BY DEF HeadingOf
  <2> HIDE DEF h
  <2>3. QED
    BY <2>1, <2>2
<1>4. \A g \in Boundaries : g <= n => g \in Above
  <2>1. \A g \in Boundaries : g \in 1..Len(doc) /\ g \in Nat
    BY BoundaryIs, LineTyped
  <2>2. QED
    BY <1>1, <2>1
<1>5. QED
  BY <1>1, <1>3, <1>4

LEMMA UnderHeading ==
    ASSUME DocTyped, NEW a, NEW b, SectionSpan(a, b), NEW n \in a..b
    PROVE  HeadingOf(n) = HeadOf(a)
<1>1. /\ a \in 1..Len(doc) /\ a \in Nat /\ n \in 1..Len(doc) /\ n \in Nat /\ b \in Nat
      /\ a <= n /\ n <= b
  BY LenProperties DEF SectionSpan, DocTyped
<1>2. /\ HeadingOf(n) \in 0..n
      /\ HeadingOf(n) = 0 \/ HeadingOf(n) \in Boundaries
      /\ \A g \in Boundaries : g <= n => g <= HeadingOf(n)
  BY <1>1, HeadingIs
<1>3. HeadingOf(n) \in Boundaries => HeadingOf(n) <= a
  BY <1>1, <1>2 DEF SectionSpan
<1>4. CASE a \in Boundaries
  BY <1>1, <1>2, <1>3, <1>4 DEF HeadOf
<1>5. CASE a \notin Boundaries
  <2>1. a = 1
    BY <1>5 DEF SectionSpan
  <2>2. ASSUME HeadingOf(n) \in Boundaries PROVE FALSE
    <3>1. HeadingOf(n) \in 1..Len(doc)
      BY <2>2, BoundaryIs
    <3>2. QED
      BY <1>2, <1>3, <1>5, <2>1, <2>2, <3>1
  <2>3. QED
    BY <1>2, <1>5, <2>2 DEF HeadOf
<1>6. QED
  BY <1>4, <1>5

---------------------------------------------------------------------------
(* The trail.                                                              *)

\* What the heading in force at each level is, after n lines.
TrailTold(s, n) ==
    \A level \in 1..3 :
        /\ s[level] \in 0..n
        /\ s[level] # 0 =>
             /\ s[level] \in Boundaries /\ doc[s[level]].level = level /\ Titled(s[level])
             /\ \A g \in Boundaries : s[level] < g /\ g <= n => doc[g].level > level
        /\ \A a \in Boundaries :
             /\ a <= n /\ Titled(a) /\ doc[a].level = level
             /\ \A g \in Boundaries : a < g /\ g <= n => doc[g].level > level
             => s[level] = a

PathTold(path, n) ==
    /\ path \in Seq(Nat) /\ ToSet(path) = Ancestors(n)
    /\ \A i \in 2..Len(path) : path[i - 1] < path[i]

LEMMA TuplesJoin ==
    ASSUME NEW u \in Nat, NEW v \in Nat, NEW w \in Nat
    PROVE  <<u>> \o <<v>> = <<u, v>> /\ <<u, v>> \o <<w>> = <<u, v, w>>
<1>1. /\ <<u>> \in Seq(Nat) /\ <<v>> \in Seq(Nat) /\ <<w>> \in Seq(Nat)
      /\ <<u, v>> \in Seq(Nat) /\ <<u, v, w>> \in Seq(Nat)
  OBVIOUS
<1>2. <<u>> \o <<v>> = <<u, v>>
  <2>1. /\ <<u>> \o <<v>> \in Seq(Nat) /\ Len(<<u>> \o <<v>>) = 2
        /\ \A i \in 1..2 : (<<u>> \o <<v>>)[i] = IF i <= 1 THEN <<u>>[i] ELSE <<v>>[i - 1]
    BY <1>1, ConcatProperties
  <2>2. \A i \in 1..2 : (<<u>> \o <<v>>)[i] = <<u, v>>[i]
    BY <2>1
  <2>3. QED
    BY <1>1, <2>1, <2>2, SeqEqual
<1>3. <<u, v>> \o <<w>> = <<u, v, w>>
  <2>1. /\ <<u, v>> \o <<w>> \in Seq(Nat) /\ Len(<<u, v>> \o <<w>>) = 3
        /\ \A i \in 1..3 : (<<u, v>> \o <<w>>)[i] = IF i <= 2 THEN <<u, v>>[i] ELSE <<w>>[i - 2]
    BY <1>1, ConcatProperties
  <2>2. \A i \in 1..3 : (<<u, v>> \o <<w>>)[i] = <<u, v, w>>[i]
    BY <2>1
  <2>3. QED
    BY <1>1, <2>1, <2>2, SeqEqual
<1>4. QED
  BY <1>2, <1>3

LEMMA JoinedTrail ==
    ASSUME NEW s \in [1..3 -> Nat],
           \A i, j \in 1..3 : i < j /\ s[i] # 0 /\ s[j] # 0 => s[i] < s[j]
    PROVE  /\ join_path(s) \in Seq(Nat)
           /\ ToSet(join_path(s)) = {s[i] : i \in 1..3} \ {0}
           /\ \A i \in 2..Len(join_path(s)) : join_path(s)[i - 1] < join_path(s)[i]
<1> DEFINE x == s[1]
           y == s[2]
           z == s[3]
           p == join_path(s)
<1>1. x \in Nat /\ y \in Nat /\ z \in Nat
  OBVIOUS
<1>2. /\ x # 0 /\ y # 0 => x < y
      /\ x # 0 /\ z # 0 => x < z
      /\ y # 0 /\ z # 0 => y < z
  OBVIOUS
<1>3. {s[i] : i \in 1..3} = {x, y, z}
  <2>1. 1..3 = {1, 2, 3}
    OBVIOUS
  <2>2. QED
    BY <2>1
<1>4. p = (IF x = 0 THEN <<>> ELSE <<x>>) \o (IF y = 0 THEN <<>> ELSE <<y>>)
            \o (IF z = 0 THEN <<>> ELSE <<z>>)
  BY DEF join_path
<1> HIDE DEF x, y, z, p
<1>5. \E n \in 0..3 :
        /\ p \in [1..n -> Nat] /\ Len(p) = n
        /\ {p[i] : i \in 1..n} = {x, y, z} \ {0}
        /\ \A i \in 2..n : p[i - 1] < p[i]
  <2>1. CASE x = 0 /\ y = 0 /\ z = 0
    <3>1. p = <<>>
      BY <1>4, <2>1
    <3>2. QED
      BY <2>1, <3>1
  <2>2. CASE x # 0 /\ y = 0 /\ z = 0
    <3>1. p = <<x>>
      BY <1>1, <1>4, <2>2
    <3>2. p \in [1..1 -> Nat] /\ Len(p) = 1 /\ p[1] = x
      BY <1>1, <3>1
    <3>3. {p[i] : i \in 1..1} = {x, y, z} \ {0}
      BY <2>2, <3>2
    <3>4. QED
      BY <3>2, <3>3
  <2>3. CASE x = 0 /\ y # 0 /\ z = 0
    <3>1. p = <<y>>
      BY <1>1, <1>4, <2>3
    <3>2. p \in [1..1 -> Nat] /\ Len(p) = 1 /\ p[1] = y
      BY <1>1, <3>1
    <3>3. {p[i] : i \in 1..1} = {x, y, z} \ {0}
      BY <2>3, <3>2
    <3>4. QED
      BY <3>2, <3>3
  <2>4. CASE x = 0 /\ y = 0 /\ z # 0
    <3>1. p = <<z>>
      BY <1>1, <1>4, <2>4
    <3>2. p \in [1..1 -> Nat] /\ Len(p) = 1 /\ p[1] = z
      BY <1>1, <3>1
    <3>3. {p[i] : i \in 1..1} = {x, y, z} \ {0}
      BY <2>4, <3>2
    <3>4. QED
      BY <3>2, <3>3
  <2>5. ASSUME NEW u \in Nat \ {0}, NEW v \in Nat \ {0}, u < v, p = <<u, v>>,
               {x, y, z} \ {0} = {u, v}
        PROVE  \E n \in 0..3 :
                 /\ p \in [1..n -> Nat] /\ Len(p) = n
                 /\ {p[i] : i \in 1..n} = {x, y, z} \ {0}
                 /\ \A i \in 2..n : p[i - 1] < p[i]
    <3>1. p \in [1..2 -> Nat] /\ Len(p) = 2 /\ p[1] = u /\ p[2] = v /\ 1..2 = {1, 2}
      BY <2>5
    <3>2. {p[i] : i \in 1..2} = {u, v}
      BY <3>1
    <3>3. \A i \in 2..2 : p[i - 1] < p[i]
      BY <2>5, <3>1
    <3>4. QED
      BY <2>5, <3>1, <3>2, <3>3
  <2>6. CASE x # 0 /\ y # 0 /\ z = 0
    <3>1. p = <<x, y>>
      <4>1. <<x>> \o <<y>> = <<x, y>>
        BY <1>1, TuplesJoin
      <4>2. <<x, y>> \o <<>> = <<x, y>> /\ <<x>> \o <<>> = <<x>> /\ <<>> \o <<x>> = <<x>>
        BY <1>1
      <4>3. QED
        BY <1>4, <2>6, <4>1, <4>2
    <3>2. {x, y, z} \ {0} = {x, y}
      BY <2>6
    <3>3. QED
      BY <1>1, <1>2, <2>5, <2>6, <3>1, <3>2
  <2>7. CASE x # 0 /\ y = 0 /\ z # 0
    <3>1. p = <<x, z>>
      <4>1. <<x>> \o <<z>> = <<x, z>>
        BY <1>1, TuplesJoin
      <4>2. <<x, z>> \o <<>> = <<x, z>> /\ <<x>> \o <<>> = <<x>> /\ <<>> \o <<x>> = <<x>>
        BY <1>1
      <4>3. QED
        BY <1>4, <2>7, <4>1, <4>2
    <3>2. {x, y, z} \ {0} = {x, z}
      BY <2>7
    <3>3. QED
      BY <1>1, <1>2, <2>5, <2>7, <3>1, <3>2
  <2>8. CASE x = 0 /\ y # 0 /\ z # 0
    <3>1. p = <<y, z>>
      <4>1. <<y>> \o <<z>> = <<y, z>>
        BY <1>1, TuplesJoin
      <4>2. <<y, z>> \o <<>> = <<y, z>> /\ <<y>> \o <<>> = <<y>> /\ <<>> \o <<y>> = <<y>>
        BY <1>1
      <4>3. QED
        BY <1>4, <2>8, <4>1, <4>2
    <3>2. {x, y, z} \ {0} = {y, z}
      BY <2>8
    <3>3. QED
      BY <1>1, <1>2, <2>5, <2>8, <3>1, <3>2
  <2>9. CASE x # 0 /\ y # 0 /\ z # 0
    <3>1. p = <<x, y, z>> /\ {x, y, z} \ {0} = {x, y, z}
      <4>1. <<x>> \o <<y>> = <<x, y>> /\ <<x, y>> \o <<z>> = <<x, y, z>>
        BY <1>1, TuplesJoin
      <4>2. {x, y, z} \ {0} = {x, y, z}
        BY <2>9
      <4>3. QED
        BY <1>4, <2>9, <4>1, <4>2
    <3>2. /\ p \in [1..3 -> Nat] /\ Len(p) = 3 /\ p[1] = x /\ p[2] = y /\ p[3] = z
          /\ 1..3 = {1, 2, 3} /\ 2..3 = {2, 3}
      BY <1>1, <3>1
    <3>3. {p[i] : i \in 1..3} = {x, y, z}
      BY <3>2
    <3>4. \A i \in 2..3 : p[i - 1] < p[i]
      BY <1>2, <2>9, <3>2
    <3>5. QED
      BY <3>1, <3>2, <3>3, <3>4
  <2>10. QED
    BY <2>1, <2>2, <2>3, <2>4, <2>6, <2>7, <2>8, <2>9
<1>6. PICK n \in 0..3 :
        /\ p \in [1..n -> Nat] /\ Len(p) = n
        /\ {p[i] : i \in 1..n} = {x, y, z} \ {0}
        /\ \A i \in 2..n : p[i - 1] < p[i]
  BY <1>5
<1>7. p \in Seq(Nat) /\ ToSet(p) = {x, y, z} \ {0} /\ \A i \in 2..Len(p) : p[i - 1] < p[i]
  <2>1. DOMAIN p = 1..n /\ p \in Seq(Nat)
    BY <1>6
  <2>2. QED
    BY <1>6, <2>1 DEF ToSet
<1>8. QED
  BY <1>3, <1>7 DEF p

\* The trail at a heading that splits: its ancestors, from the outermost.
LEMMA TrailIsPath ==
    ASSUME DocTyped, NEW n \in 1..Len(doc), NEW s \in [1..3 -> Nat], TrailTold(s, n)
    PROVE  PathTold(join_path(s), n)
<1>1. /\ n \in Nat
      /\ \A g \in Boundaries : g \in 1..Len(doc) /\ g \in Nat \ {0} /\ doc[g].level \in 1..3
  BY BoundaryIs, LineTyped
<1>2. \A i, j \in 1..3 : i < j /\ s[i] # 0 /\ s[j] # 0 => s[i] < s[j]
  <2> SUFFICES ASSUME NEW i \in 1..3, NEW j \in 1..3, i < j, s[i] # 0, s[j] # 0
               PROVE  s[i] < s[j]
    OBVIOUS
  <2>1. /\ s[i] \in Boundaries /\ doc[s[i]].level = i /\ s[i] <= n /\ s[i] \in Nat
        /\ s[j] \in Boundaries /\ doc[s[j]].level = j /\ s[j] \in Nat
        /\ \A g \in Boundaries : s[j] < g /\ g <= n => doc[g].level > j
    BY <1>1 DEF TrailTold
  <2>2. s[i] # s[j]
    BY <2>1
  <2>3. ~(s[j] < s[i])
    BY <2>1
  <2>4. QED
    BY <2>1, <2>2, <2>3
<1>3. {s[i] : i \in 1..3} \ {0} = Ancestors(n)
  <2>1. ASSUME NEW i \in 1..3, s[i] # 0 PROVE s[i] \in Ancestors(n)
    <3>1. /\ s[i] \in Boundaries /\ s[i] \in 1..n /\ Titled(s[i]) /\ doc[s[i]].level = i
          /\ \A g \in Boundaries : s[i] < g /\ g <= n => doc[g].level > i
      BY <1>1, <2>1 DEF TrailTold
    <3>2. QED
      BY <1>1, <3>1 DEF Ancestors
  <2>2. ASSUME NEW a \in Ancestors(n) PROVE \E i \in 1..3 : s[i] = a /\ a # 0
    <3>1. /\ a \in Boundaries /\ a <= n /\ Titled(a) /\ a # 0
          /\ \A g \in Boundaries : a < g /\ g <= n => doc[g].level > doc[a].level
      <4>1. /\ a \in Boundaries /\ a \in 1..n /\ Titled(a)
            /\ \A g \in Boundaries \cap (a + 1)..n : doc[g].level > doc[a].level
        BY DEF Ancestors
      <4>2. ASSUME NEW g \in Boundaries, a < g, g <= n PROVE g \in (a + 1)..n
        <5>1. g \in Nat /\ a \in Nat
          BY <1>1, <4>1, <4>2
        <5>2. QED
          BY <1>1, <4>2, <5>1
      <4>3. a <= n /\ a # 0
        BY <1>1, <4>1
      <4>4. ASSUME NEW g \in Boundaries, a < g, g <= n PROVE doc[g].level > doc[a].level
        BY <4>1, <4>2, <4>4
      <4>5. QED
        BY <4>1, <4>3, <4>4
    <3>2. s[doc[a].level] = a
      BY <1>1, <3>1 DEF TrailTold
    <3>3. QED
      BY <1>1, <3>1, <3>2
  <2>3. QED
    BY <2>1, <2>2
<1>4. QED
  BY <1>2, <1>3, JoinedTrail DEF PathTold

---------------------------------------------------------------------------
(* The sections.                                                           *)

SectionType == [heading : Nat, path : Seq(Nat), lines : Seq(Nat)]
Opens(s) == s.lines[1]
Closes(s) == s.lines[Len(s.lines)]

\* A section of consecutive lines, with the heading and the trail of its first.
SectionTold(s) ==
    /\ SectionSpan(Opens(s), Closes(s))
    /\ s.lines = [i \in 1..Closes(s) - Opens(s) + 1 |-> Opens(s) + i - 1]
    /\ s.heading = IF Titled(HeadOf(Opens(s))) THEN HeadOf(Opens(s)) ELSE 0
    /\ PathTold(s.path, HeadOf(Opens(s)))

\* Sections that follow one another from one line to another.
Tiles(secs, first, last) ==
    /\ secs \in Seq(SectionType)
    /\ \A i \in 1..Len(secs) : SectionTold(secs[i])
    /\ \A i \in 1..Len(secs) - 1 : Opens(secs[i + 1]) = Closes(secs[i]) + 1
    /\ secs = <<>> => first = last + 1
    /\ secs # <<>> => Opens(secs[1]) = first /\ Closes(secs[Len(secs)]) = last

OptionsTyped == max_tokens \in Nat \ {0} /\ overlap \in Nat

Walking ==
    /\ next \in 1..Len(doc) + 1
    /\ in_fence \in BOOLEAN /\ (in_fence <=> Cardinality(Fences(next - 1)) % 2 = 1)
    /\ stack \in [1..3 -> 0..Len(doc)] /\ TrailTold(stack, next - 1)
    /\ cur \in SectionType
    /\ \/ cur = Untitled /\ next = 1 /\ sections = <<>>
       \/ /\ SectionTold(cur) /\ Closes(cur) = next - 1
          /\ Tiles(sections, 1, Opens(cur) - 1)
    /\ start = 0 /\ out = <<>>

\* What is true of the document stays so.
LEMMA SameDocument ==
    ASSUME doc' = doc
    PROVE  /\ Boundaries' = Boundaries
           /\ \A n : Fences(n)' = Fences(n) /\ HeadOf(n)' = HeadOf(n)
           /\ \A n : Titled(n)' <=> Titled(n)
           /\ \A s, n : (TrailTold(s, n)' <=> TrailTold(s, n)) /\ (PathTold(s, n)' <=> PathTold(s, n))
           /\ \A a, b : SectionSpan(a, b)' <=> SectionSpan(a, b)
           /\ \A s : SectionTold(s)' <=> SectionTold(s)
           /\ \A s, a, b : Tiles(s, a, b)' <=> Tiles(s, a, b)
<1>1. \A n : Fences(n)' = Fences(n)
  BY DEF Fences
<1>2. Boundaries' = Boundaries
  BY DEF Boundaries
<1>3. \A n : HeadOf(n)' = HeadOf(n)
  BY <1>2 DEF HeadOf
<1>4. \A n : Titled(n)' <=> Titled(n)
  BY DEF Titled
<1>5. \A s, n : TrailTold(s, n)' <=> TrailTold(s, n)
  BY <1>2, <1>4 DEF TrailTold
<1>6. \A n : Ancestors(n)' = Ancestors(n)
  BY <1>2, <1>4 DEF Ancestors
<1>7. \A s, n : PathTold(s, n)' <=> PathTold(s, n)
  BY <1>6 DEF PathTold
<1>8. \A a, b : SectionSpan(a, b)' <=> SectionSpan(a, b)
  BY <1>2 DEF SectionSpan
<1>9. \A s : SectionTold(s)' <=> SectionTold(s)
  BY <1>3, <1>4, <1>7, <1>8 DEF SectionTold, Opens, Closes
<1>10. \A s, a, b : Tiles(s, a, b)' <=> Tiles(s, a, b)
  BY <1>9 DEF Tiles, Opens, Closes
<1>11. QED
  BY <1>1, <1>2, <1>3, <1>4, <1>5, <1>7, <1>8, <1>9, <1>10

LEMMA TilesAppend ==
    ASSUME NEW secs, NEW first, NEW last, Tiles(secs, first, last),
           NEW s \in SectionType, SectionTold(s), Opens(s) = last + 1
    PROVE  Tiles(Append(secs, s), first, Closes(s))
<1> DEFINE t == Append(secs, s)
           n == Len(secs)
<1>1. secs \in Seq(SectionType) /\ n \in Nat
  BY LenProperties DEF Tiles
<1>2. /\ t \in Seq(SectionType) /\ t # <<>> /\ Len(t) = n + 1
      /\ \A i \in 1..n : t[i] = secs[i]
      /\ t[n + 1] = s
  BY <1>1, AppendProperties
<1> HIDE DEF t
<1>3. \A i \in 1..n + 1 : SectionTold(t[i])
  <2> SUFFICES ASSUME NEW i \in 1..n + 1 PROVE SectionTold(t[i])
    OBVIOUS
  <2>1. CASE i \in 1..n
    BY <1>2, <2>1 DEF Tiles
  <2>2. CASE i = n + 1
    BY <1>2, <2>2
  <2>3. QED
    BY <1>1, <2>1, <2>2
<1>4. CASE secs = <<>>
  <2>1. n = 0
    BY <1>4, EmptySeq
  <2>2. t[1] = s /\ first = last + 1 /\ Len(t) = 1
    BY <1>2, <1>4, <2>1 DEF Tiles
  <2>3. QED
    BY <1>2, <1>3, <2>1, <2>2 DEF Tiles, t
<1>5. CASE secs # <<>>
  <2>1. n \in Nat \ {0}
    BY <1>1, <1>5, EmptySeq
  <2>2. /\ Opens(secs[1]) = first /\ Closes(secs[n]) = last
        /\ \A i \in 1..n - 1 : Opens(secs[i + 1]) = Closes(secs[i]) + 1
    BY <1>5 DEF Tiles
  <2>3. \A i \in 1..(n + 1) - 1 : Opens(t[i + 1]) = Closes(t[i]) + 1
    <3> SUFFICES ASSUME NEW i \in 1..n PROVE Opens(t[i + 1]) = Closes(t[i]) + 1
      BY <2>1
    <3>1. CASE i = n
      BY <1>2, <2>1, <2>2, <3>1
    <3>2. CASE i # n
      <4>1. i \in 1..n - 1 /\ i + 1 \in 1..n
        BY <2>1, <3>2
      <4>2. QED
        BY <1>2, <2>2, <4>1
    <3>3. QED
      BY <3>1, <3>2
  <2>4. Opens(t[1]) = first /\ Closes(t[n + 1]) = Closes(s)
    BY <1>2, <2>1, <2>2
  <2>5. QED
    BY <1>2, <1>3, <2>3, <2>4 DEF Tiles, t
<1>6. QED
  BY <1>4, <1>5

LEMMA TilesTail ==
    ASSUME NEW secs, NEW first, NEW last, Tiles(secs, first, last), secs # <<>>
    PROVE  /\ Tiles(Tail(secs), Closes(Head(secs)) + 1, last)
           /\ SectionTold(Head(secs)) /\ Opens(Head(secs)) = first
           /\ Head(secs) \in SectionType
           /\ Tail(secs) = <<>> => Closes(Head(secs)) = last
           /\ Tail(secs) # <<>> => /\ Opens(Head(Tail(secs))) = Closes(Head(secs)) + 1
                                   /\ SectionTold(Head(Tail(secs)))
<1> DEFINE t == Tail(secs)
           n == Len(secs)
<1>1. secs \in Seq(SectionType) /\ n \in Nat \ {0} /\ Head(secs) = secs[1]
  BY EmptySeq, LenProperties DEF Tiles
<1>2. /\ t \in Seq(SectionType) /\ Len(t) = n - 1
      /\ \A i \in 1..n - 1 : t[i] = secs[i + 1]
  BY <1>1, HeadTailProperties
<1>3. /\ \A i \in 1..n : SectionTold(secs[i])
      /\ \A i \in 1..n - 1 : Opens(secs[i + 1]) = Closes(secs[i]) + 1
      /\ Opens(secs[1]) = first /\ Closes(secs[n]) = last
  BY DEF Tiles
<1>4. t # <<>> => Head(t) = t[1]
  BY <1>2
<1> HIDE DEF t
<1>5. \A i \in 1..n - 1 : SectionTold(t[i])
  <2> SUFFICES ASSUME NEW i \in 1..n - 1 PROVE SectionTold(t[i])
    OBVIOUS
  <2>1. i + 1 \in 1..n
    BY <1>1
  <2>2. QED
    BY <1>2, <1>3, <2>1
<1>6. \A i \in 1..(n - 1) - 1 : Opens(t[i + 1]) = Closes(t[i]) + 1
  <2> SUFFICES ASSUME NEW i \in 1..(n - 1) - 1 PROVE Opens(t[i + 1]) = Closes(t[i]) + 1
    OBVIOUS
  <2>1. i \in 1..n - 1 /\ i + 1 \in 1..n - 1
    BY <1>1
  <2>2. t[i] = secs[i + 1] /\ t[i + 1] = secs[(i + 1) + 1]
    BY <1>2, <2>1
  <2>3. QED
    BY <1>3, <2>1, <2>2
<1>7. CASE t = <<>>
  <2>1. n = 1
    BY <1>1, <1>2, <1>7, EmptySeq
  <2>2. Closes(secs[1]) = last
    BY <1>3, <2>1
  <2>3. Len(t) = 0
    BY <1>2, <2>1
  <2>4. Tiles(t, Closes(secs[1]) + 1, last)
    BY <1>2, <1>7, <2>2, <2>3 DEF Tiles
  <2>5. SectionTold(secs[1]) /\ secs[1] \in SectionType
    BY <1>1, <1>3, ElementOfSeq
  <2>6. QED
    BY <1>1, <1>3, <1>7, <2>2, <2>4, <2>5 DEF t
<1>8. CASE t # <<>>
  <2>1. n - 1 \in Nat \ {0}
    BY <1>1, <1>2, <1>8, EmptySeq
  <2>2. /\ t[1] = secs[2] /\ t[n - 1] = secs[n] /\ SectionTold(t[1])
        /\ Opens(secs[2]) = Closes(secs[1]) + 1
    <3>1. 1 \in 1..n - 1 /\ n - 1 \in 1..n - 1 /\ (n - 1) + 1 = n /\ 1 + 1 = 2
      BY <2>1
    <3>2. QED
      BY <1>2, <1>3, <1>5, <3>1
  <2>3. QED
    BY <1>1, <1>2, <1>3, <1>4, <1>5, <1>6, <1>8, <2>2 DEF Tiles, t
<1>9. QED
  BY <1>7, <1>8

\* A line that does not split leaves the trail.
LEMMA TrailStays ==
    ASSUME DocTyped, NEW n \in 1..Len(doc), NEW s, TrailTold(s, n - 1), n \notin Boundaries
    PROVE  TrailTold(s, n)
<1>1. n \in Nat /\ \A g \in Boundaries : g \in Nat
  BY LineTyped, BoundaryIs
<1>2. \A g \in Boundaries : g <= n => g <= n - 1
  BY <1>1
<1>3. \A level \in 1..3 : s[level] \in 0..n
  BY <1>1 DEF TrailTold
<1>4. \A level \in 1..3 :
        s[level] # 0 =>
             /\ s[level] \in Boundaries /\ doc[s[level]].level = level /\ Titled(s[level])
             /\ \A g \in Boundaries : s[level] < g /\ g <= n => doc[g].level > level
  BY <1>2 DEF TrailTold
<1>5. \A level \in 1..3 : \A a \in Boundaries :
             /\ a <= n /\ Titled(a) /\ doc[a].level = level
             /\ \A g \in Boundaries : a < g /\ g <= n => doc[g].level > level
             => s[level] = a
  <2> SUFFICES ASSUME NEW level \in 1..3, NEW a \in Boundaries,
                      a <= n, Titled(a), doc[a].level = level,
                      \A g \in Boundaries : a < g /\ g <= n => doc[g].level > level
               PROVE  s[level] = a
    OBVIOUS
  <2>1. a <= n - 1 /\ \A g \in Boundaries : a < g /\ g <= n - 1 => doc[g].level > level
    BY <1>1, <1>2
  <2>2. QED
    BY <2>1 DEF TrailTold
<1>6. QED
  BY <1>3, <1>4, <1>5 DEF TrailTold

\* A heading that splits is set at its level, and those below are cleared.
LEMMA TrailIsSet ==
    ASSUME DocTyped, NEW n \in Boundaries, NEW s, TrailTold(s, n - 1), NEW h,
           h = (IF doc[n].words = 1 THEN 0 ELSE n), NEW t,
           t = [level \in 1..3 |-> CASE level < doc[n].level -> s[level]
                                     [] level = doc[n].level -> h
                                     [] OTHER -> 0]
    PROVE  t \in [1..3 -> 0..n] /\ TrailTold(t, n) /\ (h = IF Titled(n) THEN n ELSE 0)
<1>1. /\ n \in 1..Len(doc) /\ n \in Nat \ {0} /\ doc[n].level \in 1..3
      /\ \A g \in Boundaries : g \in Nat \ {0} /\ doc[g].level \in 1..3
  BY LineTyped, BoundaryIs
<1>2. doc[n].kind = "heading" /\ doc[n].words \in Nat \ {0}
  BY <1>1, LineTyped
<1>3. (Titled(n) <=> doc[n].words # 1) /\ (h = IF Titled(n) THEN n ELSE 0)
  BY <1>1, <1>2 DEF Titled
<1>4. \A level \in 1..3 : t[level] = IF level < doc[n].level THEN s[level]
                                     ELSE IF level = doc[n].level THEN h ELSE 0
  BY <1>1
<1>5. ASSUME NEW level \in 1..3
      PROVE  /\ t[level] \in 0..n
             /\ t[level] # 0 =>
                  /\ t[level] \in Boundaries /\ doc[t[level]].level = level /\ Titled(t[level])
                  /\ \A g \in Boundaries : t[level] < g /\ g <= n => doc[g].level > level
             /\ \A a \in Boundaries :
                  /\ a <= n /\ Titled(a) /\ doc[a].level = level
                  /\ \A g \in Boundaries : a < g /\ g <= n => doc[g].level > level
                  => t[level] = a
  <2>1. CASE level < doc[n].level
    <3>1. t[level] = s[level]
      BY <1>4, <2>1
    <3>2. s[level] \in 0..n - 1
      BY DEF TrailTold
    <3>3. \A g \in Boundaries : g <= n /\ doc[g].level <= level => g <= n - 1
      BY <1>1, <2>1
    <3>4. s[level] # 0 =>
            /\ s[level] \in Boundaries /\ doc[s[level]].level = level /\ Titled(s[level])
            /\ \A g \in Boundaries : s[level] < g /\ g <= n => doc[g].level > level
      <4> SUFFICES ASSUME s[level] # 0
                   PROVE  /\ s[level] \in Boundaries /\ doc[s[level]].level = level /\ Titled(s[level])
                          /\ \A g \in Boundaries : s[level] < g /\ g <= n => doc[g].level > level
        OBVIOUS
      <4>1. /\ s[level] \in Boundaries /\ doc[s[level]].level = level /\ Titled(s[level])
            /\ \A g \in Boundaries : s[level] < g /\ g <= n - 1 => doc[g].level > level
        BY DEF TrailTold
      <4>2. \A g \in Boundaries : g = n \/ ~(g <= n) \/ g <= n - 1
        BY <1>1
      <4>3. QED
        BY <2>1, <4>1, <4>2
    <3>5. ASSUME NEW a \in Boundaries, a <= n, Titled(a), doc[a].level = level,
                 \A g \in Boundaries : a < g /\ g <= n => doc[g].level > level
          PROVE  s[level] = a
      <4>1. a <= n - 1
        BY <1>1, <3>3, <3>5
      <4>2. \A g \in Boundaries : a < g /\ g <= n - 1 => doc[g].level > level
        BY <1>1, <3>5
      <4>3. QED
        BY <3>5, <4>1, <4>2 DEF TrailTold
    <3>6. QED
      BY <1>1, <3>1, <3>2, <3>4, <3>5
  <2>2. CASE level = doc[n].level
    <3>1. t[level] = h
      BY <1>4, <2>2
    <3>2. ASSUME NEW a \in Boundaries, a <= n, Titled(a), doc[a].level = level,
                 \A g \in Boundaries : a < g /\ g <= n => doc[g].level > level
          PROVE  h = a
      <4>1. ~(a < n)
        BY <1>1, <2>2, <3>2
      <4>2. a = n
        BY <1>1, <3>2, <4>1
      <4>3. QED
        BY <1>3, <3>2, <4>2
    <3>3. QED
      BY <1>1, <1>3, <2>2, <3>1, <3>2
  <2>3. CASE level > doc[n].level
    <3>1. t[level] = 0
      BY <1>1, <1>4, <2>3
    <3>2. ASSUME NEW a \in Boundaries, a <= n, Titled(a), doc[a].level = level,
                 \A g \in Boundaries : a < g /\ g <= n => doc[g].level > level
          PROVE  FALSE
      <4>1. ~(a < n)
        BY <1>1, <2>3, <3>2
      <4>2. a = n
        BY <1>1, <3>2, <4>1
      <4>3. QED
        BY <1>1, <2>3, <3>2, <4>2
    <3>3. QED
      BY <1>1, <3>1, <3>2
  <2>4. QED
    BY <1>1, <2>1, <2>2, <2>3
<1>6. t \in [1..3 -> 0..n]
  BY <1>5
<1>7. QED
  BY <1>3, <1>5, <1>6 DEF TrailTold

LEMMA DocumentsTyped ==
    /\ Documents \subseteq Notes /\ {EmptyNote} \subseteq Notes
    /\ MaxTokens \subseteq Nat /\ Overlaps \subseteq Nat /\ {0} \subseteq Nat
<1>1. Documents \subseteq Notes
  <2>1. UNION {[1..n -> Line] : n \in 0..MaxLines} \subseteq Seq(Line)
    BY ChunkerAssumption
  <2>2. [1..1 -> Line] \subseteq Seq(Line)
    <3>1. \A n \in Nat : [1..n -> Line] \subseteq Seq(Line)
      OBVIOUS
    <3>2. QED
      BY <3>1
  <2>3. QED
    BY <2>1, <2>2 DEF Documents, Notes
<1>2. EmptyNote \in Notes
  BY EmptySeq DEF EmptyNote, Notes
<1>3. QED
  BY <1>1, <1>2, ChunkerAssumption

LEMMA SplitStarts ==
    ASSUME NEW documents, documents \subseteq Notes, NEW max, max \subseteq Nat,
           NEW over, over \subseteq Nat, split_with(documents, max, over)
    PROVE  DocTyped /\ DocRead /\ OptionsTyped /\ pc = "walk" /\ Walking
<1>0. DocRead /\ DocTyped
  <2>1. markdown \in Notes /\ doc = from_utf8(markdown)
    BY DEF split_with
  <2>2. <<>> \in Seq(Line)
    BY EmptySeq
  <2>3. QED
    BY <2>1, <2>2 DEF DocRead, DocTyped, Notes, from_utf8
<1>1. DocTyped /\ Len(doc) \in Nat
  BY <1>0, LenProperties DEF DocTyped
<1>2. OptionsTyped
  BY ChunkerAssumption DEF split_with, OptionsTyped
<1>3. /\ next = 1 /\ in_fence = FALSE /\ stack = [level \in 1..3 |-> 0] /\ cur = Untitled
      /\ sections = <<>> /\ start = 0 /\ out = <<>> /\ pc = "walk"
  BY DEF split_with
<1>4. Cardinality(Fences(0)) = 0
  <2>1. Fences(0) = {}
    BY DEF Fences
  <2>2. QED
    BY <2>1, FS_EmptySet
<1>5. TrailTold(stack, 0)
  <2>1. \A g \in Boundaries : g \in Nat \ {0}
    BY <1>1, BoundaryIs, LineTyped
  <2>2. QED
    BY <1>3, <2>1 DEF TrailTold
<1>6. Untitled \in SectionType
  BY EmptySeq DEF Untitled, SectionType
<1>7. /\ next - 1 = 0 /\ next \in 1..Len(doc) + 1
      /\ in_fence \in BOOLEAN /\ (in_fence <=> Cardinality(Fences(next - 1)) % 2 = 1)
      /\ stack \in [1..3 -> 0..Len(doc)]
  <2>1. next - 1 = 0 /\ next \in 1..Len(doc) + 1 /\ stack \in [1..3 -> 0..Len(doc)]
    BY <1>1, <1>3
  <2>2. Cardinality(Fences(next - 1)) = 0
    BY <1>4, <2>1
  <2>3. ~(Cardinality(Fences(next - 1)) % 2 = 1)
    BY <2>2
  <2>4. ~in_fence /\ in_fence \in BOOLEAN
    BY <1>3
  <2>5. QED
    BY <2>1, <2>3, <2>4
<1>8. TrailTold(stack, next - 1)
  BY <1>5, <1>7
<1>9. QED
  BY <1>0, <1>1, <1>2, <1>3, <1>6, <1>7, <1>8 DEF Walking

\* The next line of the section that is read.
LEMMA LinePushed ==
    ASSUME DocTyped, Walking, next <= Len(doc), next \notin Boundaries, Push,
           UNCHANGED <<doc, stack, sections>>
    PROVE  /\ next' \in 1..Len(doc) + 1 /\ next' - 1 = next
           /\ stack' \in [1..3 -> 0..Len(doc)] /\ TrailTold(stack', next)
           /\ cur' \in SectionType
           /\ SectionTold(cur)' /\ Closes(cur') = next
           /\ Tiles(sections, 1, Opens(cur) - 1)'
<1> DEFINE c == [cur EXCEPT !.lines = Append(cur.lines, next)]
<1>1. next \in 1..Len(doc) /\ next \in Nat \ {0} /\ Len(doc) \in Nat
  BY LenProperties DEF Walking, DocTyped
<1>2. next' = next + 1 /\ cur' = c
  BY DEF Push
<1>3. /\ cur \in SectionType /\ cur.lines \in Seq(Nat)
      /\ c \in SectionType
      /\ c.heading = cur.heading /\ c.path = cur.path /\ c.lines = Append(cur.lines, next)
  <2>1. cur \in SectionType /\ cur.lines \in Seq(Nat)
    BY DEF Walking, SectionType
  <2>2. Append(cur.lines, next) \in Seq(Nat)
    BY <1>1, <2>1, AppendProperties
  <2>3. QED
    BY <2>1, <2>2 DEF SectionType
<1> HIDE DEF c
<1>4. TrailTold(stack, next)
  BY <1>1, TrailStays DEF Walking
<1>5. /\ c.lines \in Seq(Nat) /\ Len(c.lines) = Len(cur.lines) + 1
      /\ \A i \in 1..Len(cur.lines) : c.lines[i] = cur.lines[i]
      /\ c.lines[Len(cur.lines) + 1] = next /\ Len(cur.lines) \in Nat
  BY <1>1, <1>3, AppendProperties, LenProperties
<1>6. Closes(c) = next
  BY <1>5 DEF Closes
<1>7. SectionTold(c) /\ Tiles(sections, 1, Opens(c) - 1)
  <2>1. CASE cur = Untitled /\ next = 1 /\ sections = <<>>
    <3>1. Len(cur.lines) = 0 /\ cur.heading = 0 /\ cur.path = <<>>
      BY <2>1, EmptySeq DEF Untitled
    <3>2. c.lines[1] = 1 /\ Len(c.lines) = 1
      BY <1>5, <2>1, <3>1
    <3>3. Opens(c) = 1 /\ Closes(c) = 1
      BY <3>2 DEF Opens, Closes
    <3>4. SectionSpan(1, 1) /\ HeadOf(1) = 0
      <4>1. \A g \in Boundaries : g \in Nat
        BY BoundaryIs, LineTyped
      <4>2. QED
        BY <1>1, <2>1, <4>1 DEF SectionSpan, HeadOf
    <3>5. PathTold(<<>>, 0)
      <4>1. Ancestors(0) = {}
        BY DEF Ancestors
      <4>2. <<>> \in Seq(Nat) /\ Len(<<>>) = 0 /\ ToSet(<<>>) = {}
        BY EmptySeq DEF ToSet
      <4>3. \A i \in 2..0 : FALSE
        OBVIOUS
      <4>4. \A i \in 2..Len(<<>>) : <<>>[i - 1] < <<>>[i]
        BY <4>2, <4>3
      <4>5. QED
        BY <4>1, <4>2, <4>4 DEF PathTold
    <3>6. ~Titled(0)
      BY DEF Titled
    <3>7. c.lines = [i \in 1..1 - 1 + 1 |-> 1 + i - 1]
      <4>1. c.lines = [i \in 1..1 |-> c.lines[i]]
        BY <1>5, <3>2, LenProperties
      <4>2. \A i \in 1..1 : c.lines[i] = 1 + i - 1
        BY <3>2
      <4>3. 1 - 1 + 1 = 1
        OBVIOUS
      <4>4. QED
        BY <4>1, <4>2, <4>3
    <3>8. SectionTold(c)
      BY <1>3, <3>1, <3>3, <3>4, <3>5, <3>6, <3>7 DEF SectionTold
    <3>9. Tiles(<<>>, 1, 0)
      BY EmptySeq DEF Tiles
    <3>10. QED
      BY <2>1, <3>3, <3>8, <3>9
  <2>2. CASE /\ SectionTold(cur) /\ Closes(cur) = next - 1
             /\ Tiles(sections, 1, Opens(cur) - 1)
    <3> DEFINE a == Opens(cur)
    <3>1. /\ SectionSpan(a, next - 1)
          /\ cur.lines = [i \in 1..(next - 1) - a + 1 |-> a + i - 1]
          /\ cur.heading = IF Titled(HeadOf(a)) THEN HeadOf(a) ELSE 0
          /\ PathTold(cur.path, HeadOf(a))
      BY <2>2 DEF SectionTold
    <3>2. a \in 1..Len(doc) /\ a \in Nat \ {0} /\ next - 1 \in a..Len(doc)
      BY <1>1, <3>1 DEF SectionSpan
    <3>3. Len(cur.lines) = next - a /\ next - a \in Nat \ {0}
      <4>1. next - a \in Nat \ {0} /\ (next - 1) - a + 1 = next - a
        BY <1>1, <3>2
      <4>2. cur.lines \in [1..next - a -> Nat]
        BY <3>1, <3>2, <4>1
      <4>3. QED
        BY <4>1, <4>2
    <3>4. Opens(c) = a
      <4>1. 1 \in 1..Len(cur.lines)
        BY <3>3
      <4>2. QED
        BY <1>5, <4>1 DEF Opens
    <3> HIDE DEF a
    <3>5. SectionSpan(a, next)
      <4>1. \A g \in Boundaries : g \in Nat
        BY BoundaryIs, LineTyped
      <4>2. \A g \in Boundaries : g <= next => g <= next - 1
        BY <1>1, <4>1
      <4>3. QED
        BY <1>1, <3>1, <3>2, <4>2 DEF SectionSpan
    <3>6. c.lines = [i \in 1..next - a + 1 |-> a + i - 1]
      <4>1. c.lines = [i \in 1..next - a + 1 |-> c.lines[i]]
        BY <1>5, <3>3, LenProperties
      <4>2. ASSUME NEW i \in 1..next - a + 1 PROVE c.lines[i] = a + i - 1
        <5>1. CASE i \in 1..next - a
          <6>1. i \in 1..(next - 1) - a + 1
            BY <1>1, <3>2, <5>1
          <6>2. cur.lines[i] = a + i - 1
            BY <3>1, <6>1
          <6>3. QED
            BY <1>5, <3>3, <5>1, <6>2
        <5>2. CASE i = next - a + 1
          BY <1>1, <1>5, <3>2, <3>3, <5>2
        <5>3. QED
          BY <1>1, <3>2, <3>3, <5>1, <5>2
      <4>3. QED
        BY <4>1, <4>2
    <3>7. SectionTold(c)
      BY <1>3, <1>6, <3>1, <3>4, <3>5, <3>6 DEF SectionTold
    <3>8. QED
      BY <2>2, <3>4, <3>7 DEF a
  <2>3. QED
    BY <2>1, <2>2 DEF Walking
<1>8. QED
  <2>1. SectionTold(cur)'
    BY <1>2, <1>7, SameDocument
  <2>2. Tiles(sections, 1, Opens(cur) - 1)'
    BY <1>2, <1>7, SameDocument DEF Opens
  <2>3. TrailTold(stack', next)
    BY <1>4, SameDocument
  <2>4. /\ next' \in 1..Len(doc) + 1 /\ next' - 1 = next
        /\ stack' \in [1..3 -> 0..Len(doc)] /\ cur' \in SectionType /\ Closes(cur') = next
    BY <1>1, <1>2, <1>3, <1>6 DEF Walking
  <2>5. QED
    BY <2>1, <2>2, <2>3, <2>4

LEMMA FenceKeeps == DocTyped /\ Walking /\ Fence => Walking'
<1> SUFFICES ASSUME DocTyped, Walking, Fence PROVE Walking'
  OBVIOUS
<1>1. /\ next <= Len(doc) /\ doc[next].kind = "fence" /\ Push /\ in_fence' = ~in_fence
      /\ UNCHANGED <<doc, stack, sections, start, out>>
  BY DEF Fence, Reads, input
<1>2. next \in 1..Len(doc)
  BY <1>1 DEF Walking
<1>3. next \notin Boundaries
  BY <1>1, <1>2, LineTyped, BoundaryIs
<1>4. /\ next' \in 1..Len(doc) + 1 /\ next' - 1 = next
      /\ stack' \in [1..3 -> 0..Len(doc)] /\ TrailTold(stack', next)
      /\ cur' \in SectionType
      /\ SectionTold(cur)' /\ Closes(cur') = next
      /\ Tiles(sections, 1, Opens(cur) - 1)'
  BY <1>1, <1>3, LinePushed
<1>5. in_fence' \in BOOLEAN /\ (in_fence' <=> Cardinality(Fences(next)) % 2 = 1)
  <2>1. /\ Cardinality(Fences(next - 1)) \in Nat
        /\ Cardinality(Fences(next)) = Cardinality(Fences(next - 1)) + 1
    BY <1>1, <1>2, FencesCounted
  <2>2. Cardinality(Fences(next)) % 2 = 1 <=> ~(Cardinality(Fences(next - 1)) % 2 = 1)
    BY <2>1
  <2>3. in_fence \in BOOLEAN /\ (in_fence <=> Cardinality(Fences(next - 1)) % 2 = 1)
    BY DEF Walking
  <2>4. QED
    BY <1>1, <2>2, <2>3
<1>6. /\ \A n : Fences(n)' = Fences(n)
      /\ \A s, n : TrailTold(s, n)' <=> TrailTold(s, n)
  BY <1>1, SameDocument
<1>7. TrailTold(stack, next - 1)'
  BY <1>4, <1>6
<1>8. in_fence' \in BOOLEAN /\ (in_fence <=> Cardinality(Fences(next - 1)) % 2 = 1)'
  BY <1>4, <1>5, <1>6
<1>9. start' = 0 /\ out' = <<>>
  BY <1>1 DEF Walking
<1>10. QED
  BY <1>1, <1>4, <1>7, <1>8, <1>9 DEF Walking, Closes

LEMMA ProseKeeps == DocTyped /\ Walking /\ Prose => Walking'
<1> SUFFICES ASSUME DocTyped, Walking, Prose PROVE Walking'
  OBVIOUS
<1>1. /\ next <= Len(doc) /\ doc[next].kind # "fence" /\ Push /\ UNCHANGED in_fence
      /\ doc[next].kind = "heading" => in_fence \/ doc[next].level \notin 1..3
      /\ UNCHANGED <<doc, stack, sections, start, out>>
  BY DEF Prose, Reads, Splits, input
<1>2. next \in 1..Len(doc)
  BY <1>1 DEF Walking
<1>3. next \notin Boundaries
  <2>1. in_fence => Cardinality(Fences(next - 1)) % 2 # 0
    BY DEF Walking
  <2>2. doc[next].kind # "heading" => doc[next].level = 0
    BY <1>2, LineTyped
  <2>3. QED
    BY <1>1, <2>1, <2>2, BoundaryIs
<1>4. /\ next' \in 1..Len(doc) + 1 /\ next' - 1 = next
      /\ stack' \in [1..3 -> 0..Len(doc)] /\ TrailTold(stack', next)
      /\ cur' \in SectionType
      /\ SectionTold(cur)' /\ Closes(cur') = next
      /\ Tiles(sections, 1, Opens(cur) - 1)'
  BY <1>1, <1>3, LinePushed
<1>5. in_fence' \in BOOLEAN /\ (in_fence' <=> Cardinality(Fences(next)) % 2 = 1)
  <2>1. Cardinality(Fences(next)) = Cardinality(Fences(next - 1))
    BY <1>1, <1>2, FencesCounted
  <2>2. in_fence \in BOOLEAN /\ (in_fence <=> Cardinality(Fences(next - 1)) % 2 = 1)
    BY DEF Walking
  <2>3. QED
    BY <1>1, <2>1, <2>2
<1>6. /\ \A n : Fences(n)' = Fences(n)
      /\ \A s, n : TrailTold(s, n)' <=> TrailTold(s, n)
  BY <1>1, SameDocument
<1>7. TrailTold(stack, next - 1)'
  BY <1>4, <1>6
<1>8. in_fence' \in BOOLEAN /\ (in_fence <=> Cardinality(Fences(next - 1)) % 2 = 1)'
  BY <1>4, <1>5, <1>6
<1>9. start' = 0 /\ out' = <<>>
  BY <1>1 DEF Walking
<1>10. QED
  BY <1>1, <1>4, <1>7, <1>8, <1>9 DEF Walking, Closes

\* The section that was read joins the others.
LEMMA SectionFlushed ==
    ASSUME DocTyped, Walking
    PROVE  Tiles(Flushed, 1, next - 1)
<1>1. next - 1 \in Nat
  BY DEF Walking
<1>2. CASE cur = Untitled /\ next = 1 /\ sections = <<>>
  <2>1. Flushed = <<>> /\ next = 1
    BY <1>2 DEF Flushed, Untitled
  <2>2. QED
    BY <2>1, EmptySeq DEF Tiles
<1>3. CASE /\ SectionTold(cur) /\ Closes(cur) = next - 1
           /\ Tiles(sections, 1, Opens(cur) - 1)
  <2>1. Opens(cur) \in Nat /\ Opens(cur) \in 1..Len(doc) /\ next - 1 \in Opens(cur)..Len(doc)
    BY <1>3, LineTyped DEF SectionTold, SectionSpan
  <2>2. cur.lines # <<>>
    <3>1. 1 \in 1..(next - 1) - Opens(cur) + 1
      BY <1>1, <2>1
    <3>2. cur.lines = [i \in 1..(next - 1) - Opens(cur) + 1 |-> Opens(cur) + i - 1]
      BY <1>3 DEF SectionTold
    <3>3. QED
      BY <3>1, <3>2
  <2>3. Flushed = Append(sections, cur)
    BY <2>2 DEF Flushed
  <2>4. cur \in SectionType /\ Opens(cur) = (Opens(cur) - 1) + 1
    BY <2>1 DEF Walking
  <2>5. QED
    BY <1>3, <2>3, <2>4, TilesAppend
<1>4. QED
  BY <1>2, <1>3 DEF Walking

LEMMA HeadingKeeps == DocTyped /\ Walking /\ Heading => Walking'
<1> SUFFICES ASSUME DocTyped, Walking, Heading PROVE Walking'
  OBVIOUS
<1> DEFINE h == HeadingText
           c == [heading |-> h, path |-> join_path(stack'), lines |-> <<next>>]
<1>1. /\ next <= Len(doc) /\ doc[next].kind = "heading"
      /\ ~in_fence /\ doc[next].level \in 1..3
      /\ sections' = Flushed /\ stack' = Trail /\ cur' = c /\ next' = next + 1
      /\ UNCHANGED <<doc, in_fence, start, out>>
  BY DEF Heading, Reads, Splits, input
<1>2. next \in 1..Len(doc) /\ next \in Nat \ {0} /\ Len(doc) \in Nat
  BY <1>1, LenProperties DEF Walking, DocTyped
<1>3. /\ in_fence \in BOOLEAN /\ (in_fence <=> Cardinality(Fences(next - 1)) % 2 = 1)
      /\ Cardinality(Fences(next - 1)) \in Nat
      /\ Cardinality(Fences(next)) = Cardinality(Fences(next - 1))
  <2>1. in_fence \in BOOLEAN /\ (in_fence <=> Cardinality(Fences(next - 1)) % 2 = 1)
    BY DEF Walking
  <2>2. /\ Cardinality(Fences(next - 1)) \in Nat
        /\ Cardinality(Fences(next)) = Cardinality(Fences(next - 1))
    BY <1>1, <1>2, FencesCounted
  <2>3. QED
    BY <2>1, <2>2
<1>4. next \in Boundaries
  <2>1. Cardinality(Fences(next - 1)) % 2 = 0
    BY <1>1, <1>3
  <2>2. QED
    BY <1>1, <1>2, <2>1, BoundaryIs
<1>5. /\ stack' \in [1..3 -> 0..next] /\ TrailTold(stack', next)
      /\ h = IF Titled(next) THEN next ELSE 0
  <2>1. PICK t : t = Trail
    OBVIOUS
  <2>2. t = [level \in 1..3 |-> CASE level < doc[next].level -> stack[level]
                                  [] level = doc[next].level -> h
                                  [] OTHER -> 0]
    BY <2>1 DEF Trail
  <2>3. TrailTold(stack, next - 1) /\ h = (IF doc[next].words = 1 THEN 0 ELSE next)
    BY DEF Walking, HeadingText
  <2> HIDE DEF h
  <2>4. t \in [1..3 -> 0..next] /\ TrailTold(t, next) /\ (h = IF Titled(next) THEN next ELSE 0)
    BY <1>4, <2>2, <2>3, TrailIsSet
  <2>5. QED
    BY <1>1, <2>1, <2>4
<1>6. PathTold(join_path(stack'), next)
  <2>1. stack' \in [1..3 -> Nat]
    BY <1>2, <1>5
  <2>2. QED
    BY <1>2, <1>5, <2>1, TrailIsPath
<1> HIDE DEF h
<1>7. /\ c \in SectionType /\ c.heading = h /\ c.path = join_path(stack') /\ c.lines = <<next>>
      /\ Opens(c) = next /\ Closes(c) = next
  <2>1. h \in Nat /\ join_path(stack') \in Seq(Nat) /\ <<next>> \in Seq(Nat)
    BY <1>2, <1>5, <1>6 DEF PathTold
  <2>2. QED
    BY <1>2, <2>1 DEF SectionType, Opens, Closes
<1> HIDE DEF c
<1>8. SectionTold(c)
  <2>1. \A g \in Boundaries : g \in Nat
    BY BoundaryIs, LineTyped
  <2>2. SectionSpan(next, next) /\ HeadOf(next) = next
    BY <1>2, <1>4, <2>1 DEF SectionSpan, HeadOf
  <2>3. c.lines = [i \in 1..next - next + 1 |-> next + i - 1]
    <3>1. next - next + 1 = 1
      BY <1>2
    <3>2. \A i \in 1..1 : next + i - 1 = next
      BY <1>2
    <3>3. [i \in 1..1 |-> next + i - 1] = <<next>>
      BY <3>2
    <3>4. QED
      BY <1>7, <3>1, <3>3
  <2>4. QED
    BY <1>5, <1>6, <1>7, <2>2, <2>3 DEF SectionTold
<1>9. Tiles(Flushed, 1, next - 1)
  BY SectionFlushed
<1>10. /\ \A n : Fences(n)' = Fences(n)
       /\ \A s, n : TrailTold(s, n)' <=> TrailTold(s, n)
       /\ \A s : SectionTold(s)' <=> SectionTold(s)
       /\ \A s, a, b : Tiles(s, a, b)' <=> Tiles(s, a, b)
  BY <1>1, SameDocument
<1>11. next' - 1 = next /\ next' \in 1..Len(doc) + 1
  BY <1>1, <1>2
<1>12. TrailTold(stack, next - 1)'
  BY <1>5, <1>10, <1>11
<1>13. in_fence' \in BOOLEAN /\ (in_fence <=> Cardinality(Fences(next - 1)) % 2 = 1)'
  BY <1>1, <1>3, <1>10, <1>11
<1>14. SectionTold(cur)' /\ Tiles(sections, 1, Opens(cur) - 1)'
  BY <1>1, <1>7, <1>8, <1>9, <1>10 DEF Opens
<1>15. start' = 0 /\ out' = <<>> /\ stack' \in [1..3 -> 0..Len(doc)]
  BY <1>1, <1>2, <1>5 DEF Walking
<1>16. QED
  BY <1>1, <1>7, <1>11, <1>12, <1>13, <1>14, <1>15 DEF Walking, Closes

---------------------------------------------------------------------------
(* The chunks.                                                             *)

ChunkType == [heading : Nat, path : Seq(Nat), content : Seq(Word)]

\* The section ends where the next heading splits, or with the document.
Closed(b) == b = Len(doc) \/ b + 1 \in Boundaries

\* How many words are peeled off a section and put before each window.
PeelOf(a, b) == IF Titled(HeadOf(a)) /\ Count(b) # Count(a) THEN doc[a].words ELSE 0

\* A chunk of the section from line a to b: its heading line and a window.
ChunkCut(c, a, b, x, y) ==
    /\ SectionSpan(a, b) /\ Closed(b)
    /\ x \in Nat /\ y \in Nat
    /\ Count(a - 1) + PeelOf(a, b) <= x /\ x < y /\ y <= Count(b)
    /\ y - x <= max_tokens
    /\ c.content = Part(Count(a - 1), Count(a - 1) + PeelOf(a, b)) \o Part(x, y)
    /\ c.heading = IF Titled(HeadOf(a)) THEN HeadOf(a) ELSE 0
    /\ PathTold(c.path, HeadOf(a))

LEMMA PartOfPart ==
    ASSUME DocTyped, NEW x \in Nat, NEW y \in x..Len(AllWords),
           NEW u \in 0..y - x, NEW v \in u..y - x
    PROVE  SubSeq(Part(x, y), u + 1, v) = Part(x + u, x + v)
<1>1. Len(AllWords) \in Nat /\ y \in Nat
  BY WordsTyped
<1>2. /\ Part(x, y) \in Seq(Word) /\ Len(Part(x, y)) = y - x
      /\ \A p \in 1..y - x : Part(x, y)[p] = AllWords[x + p]
  BY PartIs
<1>3. \A i \in u + 1..v : Part(x, y)[i] \in Word
  <2>1. \A i \in u + 1..v : i \in 1..Len(Part(x, y))
    BY <1>1, <1>2
  <2>2. QED
    BY <1>2, <2>1, ElementOfSeq
<1>4. /\ SubSeq(Part(x, y), u + 1, v) \in Seq(Word)
      /\ Len(SubSeq(Part(x, y), u + 1, v)) = IF u + 1 <= v THEN v - (u + 1) + 1 ELSE 0
      /\ \A i \in 1..v - (u + 1) + 1 : SubSeq(Part(x, y), u + 1, v)[i] = Part(x, y)[(u + 1) + i - 1]
  <2>1. u + 1 \in Int /\ v \in Int
    BY <1>1
  <2>2. QED
    BY <1>3, <2>1, SubSeqProperties
<1>5. /\ Part(x + u, x + v) \in Seq(Word) /\ Len(Part(x + u, x + v)) = v - u
      /\ \A p \in 1..v - u : Part(x + u, x + v)[p] = AllWords[(x + u) + p]
  <2>1. x + u \in Nat /\ x + v \in x + u..Len(AllWords) /\ (x + v) - (x + u) = v - u
    BY <1>1
  <2>2. QED
    BY <2>1, PartIs
<1>6. Len(SubSeq(Part(x, y), u + 1, v)) = v - u
  BY <1>1, <1>4
<1>7. \A i \in 1..v - u : SubSeq(Part(x, y), u + 1, v)[i] = Part(x + u, x + v)[i]
  <2> SUFFICES ASSUME NEW i \in 1..v - u
               PROVE  SubSeq(Part(x, y), u + 1, v)[i] = Part(x + u, x + v)[i]
    OBVIOUS
  <2>1. i \in 1..v - (u + 1) + 1 /\ (u + 1) + i - 1 = u + i /\ u + i \in 1..y - x
        /\ x + (u + i) = (x + u) + i
    BY <1>1
  <2>2. QED
    BY <1>2, <1>4, <1>5, <2>1
<1>8. QED
  BY <1>4, <1>5, <1>6, <1>7, SeqEqual

\* The counts of a section.
LEMMA SpanCounted ==
    ASSUME DocTyped, NEW a, NEW b, SectionSpan(a, b)
    PROVE  /\ a \in 1..Len(doc) /\ a \in Nat \ {0} /\ b \in a..Len(doc) /\ Len(doc) \in Nat
           /\ Count(a - 1) \in Nat /\ Count(a) \in Nat /\ Count(b) \in Nat
           /\ Count(a) = Count(a - 1) + doc[a].words /\ doc[a].words \in Nat
           /\ Count(a) <= Count(b) /\ Count(b) <= Len(AllWords) /\ Len(AllWords) \in Nat
           /\ PeelOf(a, b) \in Nat
           /\ Count(a - 1) + PeelOf(a, b) <= Count(b)
           /\ PeelOf(a, b) # 0 =>
                /\ PeelOf(a, b) = doc[a].words /\ Titled(HeadOf(a)) /\ HeadOf(a) = a
                /\ Count(a - 1) + PeelOf(a, b) < Count(b)
<1>1. a \in 1..Len(doc) /\ b \in a..Len(doc) /\ Len(doc) \in Nat /\ a \in Nat \ {0}
  BY LineTyped DEF SectionSpan
<1>2. a - 1 \in 0..Len(doc) /\ a \in a - 1..Len(doc) /\ a \in 0..Len(doc)
  BY <1>1
<1>3. /\ Count(a - 1) \in Nat /\ Count(a) \in Nat /\ Count(b) \in Nat
      /\ Count(a) <= Count(b) /\ Count(b) <= Len(AllWords)
  BY <1>1, <1>2, CountGrows
<1>4. Count(a) = Count(a - 1) + doc[a].words /\ doc[a].words \in Nat
  BY <1>1, LineIsPart
<1>5. Titled(HeadOf(a)) => HeadOf(a) = a
  BY DEF Titled, HeadOf
<1>6. Len(AllWords) \in Nat
  BY WordsTyped
<1>7. /\ PeelOf(a, b) \in Nat
      /\ Count(a - 1) + PeelOf(a, b) <= Count(b)
      /\ PeelOf(a, b) # 0 =>
            /\ PeelOf(a, b) = doc[a].words /\ Titled(HeadOf(a)) /\ HeadOf(a) = a
            /\ Count(a - 1) + PeelOf(a, b) < Count(b)
  BY <1>3, <1>4, <1>5 DEF PeelOf
<1>8. QED
  BY <1>1, <1>3, <1>4, <1>6, <1>7

\* What the loop over the sections takes from the first of them.
LEMMA SectionCut ==
    ASSUME DocTyped, SectionTold(Section), NEW a, a = Opens(Section), NEW b, b = Closes(Section)
    PROVE  /\ SectionSpan(a, b)
           /\ Text(Section) = Part(Count(a - 1), Count(b))
           /\ Len(Text(Section)) = Count(b) - Count(a - 1)
           /\ Peeled = Part(Count(a - 1), Count(a - 1) + PeelOf(a, b))
           /\ Len(Peeled) = PeelOf(a, b)
           /\ Rest = Part(Count(a - 1) + PeelOf(a, b), Count(b))
           /\ Len(Rest) = Count(b) - (Count(a - 1) + PeelOf(a, b))
<1>1. SectionSpan(a, b)
  BY DEF SectionTold
<1>2. /\ a \in 1..Len(doc) /\ a \in Nat \ {0} /\ b \in a..Len(doc) /\ Len(doc) \in Nat
      /\ Count(a - 1) \in Nat /\ Count(a) \in Nat /\ Count(b) \in Nat
      /\ Count(a) = Count(a - 1) + doc[a].words /\ doc[a].words \in Nat
      /\ Count(a) <= Count(b) /\ Count(b) <= Len(AllWords) /\ Len(AllWords) \in Nat
      /\ PeelOf(a, b) \in Nat
      /\ Count(a - 1) + PeelOf(a, b) <= Count(b)
  BY <1>1, SpanCounted
<1> DEFINE lo == Count(a - 1)
           hi == Count(b)
           p == PeelOf(a, b)
<1>3. Text(Section) = Span(a, b)
  <2>1. Section.lines = [i \in 1..b - a + 1 |-> a + i - 1]
    BY DEF SectionTold
  <2>2. [i \in DOMAIN Section.lines |-> Words(Section.lines[i])]
          = [i \in 1..b - a + 1 |-> Words(a + i - 1)]
    BY <2>1
  <2>3. QED
    BY <2>2 DEF Text, Span
<1>4. Span(a, b) = Part(lo, hi)
  <2>1. b \in a - 1..Len(doc)
    BY <1>2
  <2>2. QED
    BY <1>2, <2>1, SpanIsPart
<1> HIDE DEF lo, hi, p
<1>5. lo \in Nat /\ hi \in Nat /\ hi \in lo..Len(AllWords) /\ p \in Nat /\ lo + p <= hi
  BY <1>2 DEF lo, hi, p
<1>6. Len(Part(lo, hi)) = hi - lo
  BY <1>5, PartIs
<1>7. Peeled = Part(lo, lo + p)
  <2>1. Section.heading = IF Titled(HeadOf(a)) THEN HeadOf(a) ELSE 0
    BY DEF SectionTold
  <2>2. CASE ~Titled(HeadOf(a))
    <3>1. Peeled = <<>>
      BY <2>1, <2>2 DEF Peeled
    <3>2. p = 0
      BY <2>2 DEF p, PeelOf
    <3>3. Part(lo, lo) = <<>>
      BY <1>5, SubSeqEmpty DEF Part
    <3>4. QED
      BY <1>5, <3>1, <3>2, <3>3
  <2>3. CASE Titled(HeadOf(a))
    <3>1. HeadOf(a) = a /\ Section.heading = a /\ a # 0
      BY <1>2, <2>1, <2>3 DEF Titled, HeadOf
    <3>2. Words(a) = Part(lo, Count(a)) /\ Count(a) = lo + doc[a].words
      BY <1>2, LineIsPart DEF lo
    <3>3. CASE hi = Count(a)
      <4>1. Peeled = <<>>
        BY <1>3, <1>4, <3>1, <3>2, <3>3 DEF Peeled
      <4>2. p = 0
        BY <3>3 DEF p, hi, PeelOf
      <4>3. Part(lo, lo) = <<>>
        BY <1>5, SubSeqEmpty DEF Part
      <4>4. QED
        BY <1>5, <4>1, <4>2, <4>3
    <3>4. CASE hi # Count(a)
      <4>1. Len(Part(lo, Count(a))) = Count(a) - lo
        <5>1. Count(a) \in lo..Len(AllWords)
          BY <1>2 DEF lo
        <5>2. QED
          BY <1>5, <5>1, PartIs
      <4>2. Text(Section) # Words(a)
        <5>1. hi - lo # Count(a) - lo
          BY <1>2, <1>5, <3>4
        <5>2. Part(lo, hi) # Part(lo, Count(a))
          BY <1>6, <4>1, <5>1
        <5>3. QED
          BY <1>3, <1>4, <3>2, <5>2
      <4>3. Peeled = Words(a)
        BY <3>1, <4>2 DEF Peeled
      <4>4. p = doc[a].words
        BY <2>3, <3>4 DEF p, hi, PeelOf
      <4>5. QED
        BY <3>2, <4>3, <4>4
    <3>5. QED
      BY <3>3, <3>4
  <2>4. QED
    BY <2>2, <2>3
<1>8. Len(Peeled) = p
  <2>1. lo + p \in lo..Len(AllWords)
    BY <1>2, <1>5
  <2>2. Len(Part(lo, lo + p)) = (lo + p) - lo
    BY <1>5, <2>1, PartIs
  <2>3. (lo + p) - lo = p
    BY <1>5
  <2>4. QED
    BY <1>7, <2>2, <2>3
<1>9. Rest = Part(lo + p, hi)
  <2>1. Rest = SubSeq(Part(lo, hi), p + 1, hi - lo)
    BY <1>3, <1>4, <1>6, <1>8 DEF Rest
  <2>2. p \in 0..hi - lo /\ hi - lo \in p..hi - lo /\ lo + (hi - lo) = hi
    BY <1>5
  <2>3. SubSeq(Part(lo, hi), p + 1, hi - lo) = Part(lo + p, lo + (hi - lo))
    BY <1>5, <2>2, PartOfPart
  <2>4. QED
    BY <2>1, <2>2, <2>3
<1>10. Len(Rest) = hi - (lo + p)
  <2>1. lo + p \in Nat /\ hi \in lo + p..Len(AllWords)
    BY <1>2, <1>5
  <2>2. QED
    BY <1>9, <2>1, PartIs
<1>11. QED
  BY <1>1, <1>3, <1>4, <1>6, <1>7, <1>8, <1>9, <1>10 DEF lo, hi, p

---------------------------------------------------------------------------
(* What a chunk has.                                                       *)

LEMMA LineOfPlace ==
    ASSUME DocTyped, NEW a, NEW b, SectionSpan(a, b),
           NEW q \in Nat, Count(a - 1) < q, q <= Count(b)
    PROVE  q \in 1..Len(AllWords) /\ AllWords[q] \in Word /\ AllWords[q][1] \in a..b
<1>1. /\ a \in 1..Len(doc) /\ a \in Nat \ {0} /\ b \in a..Len(doc) /\ Len(doc) \in Nat
      /\ Count(a - 1) \in Nat /\ Count(b) \in Nat
      /\ Count(b) <= Len(AllWords) /\ Len(AllWords) \in Nat
  BY SpanCounted
<1>2. q \in 1..Len(AllWords)
  BY <1>1
<1>11. PICK n \in 1..Len(doc) : \E j \in 1..doc[n].words : q = Count(n - 1) + j /\ AllWords[q] = <<n, j>>
  BY <1>2, PlaceOfWord
<1>3. PICK j \in 1..doc[n].words : q = Count(n - 1) + j /\ AllWords[q] = <<n, j>>
  BY <1>11
<1>4. /\ n \in Nat /\ n - 1 \in 0..Len(doc) /\ n \in 0..Len(doc) /\ a - 1 \in 0..Len(doc)
      /\ b \in 0..Len(doc) /\ b \in Nat
  BY <1>1
<1>5. /\ Count(n - 1) \in Nat /\ Count(n) = Count(n - 1) + doc[n].words /\ doc[n].words \in Nat
  BY <1>4, LineIsPart, CountGrows
<1>6. Count(n - 1) < q /\ q <= Count(n)
  BY <1>3, <1>5
<1>7. ~(n <= a - 1)
  <2>1. n <= a - 1 => Count(n) <= Count(a - 1)
    BY <1>1, <1>4, CountGrows
  <2>2. QED
    BY <1>1, <1>5, <1>6, <2>1
<1>8. ~(b <= n - 1)
  <2>1. b <= n - 1 => Count(b) <= Count(n - 1)
    BY <1>1, <1>4, CountGrows
  <2>2. QED
    BY <1>1, <1>5, <1>6, <2>1
<1>9. n \in a..b
  BY <1>1, <1>4, <1>7, <1>8
<1>10. AllWords[q] \in Word
  BY <1>2, WordsTyped, ElementOfSeq
<1>12. QED
  BY <1>2, <1>3, <1>9, <1>10

\* Where word j of a chunk is in the text.
Place(a, b, x, j) ==
    IF j <= PeelOf(a, b) THEN Count(a - 1) + j ELSE x + (j - PeelOf(a, b))

LEMMA ChunkWords ==
    ASSUME DocTyped, NEW c, NEW a, NEW b, NEW x, NEW y, ChunkCut(c, a, b, x, y)
    PROVE  /\ c.content \in Seq(Word) /\ Len(c.content) \in Nat \ {0}
           /\ Len(c.content) = PeelOf(a, b) + (y - x)
           /\ \A j \in 1..Len(c.content) :
                /\ Place(a, b, x, j) \in Nat
                /\ Count(a - 1) < Place(a, b, x, j) /\ Place(a, b, x, j) <= y
                /\ c.content[j] = AllWords[Place(a, b, x, j)]
<1> DEFINE lo == Count(a - 1)
           p == PeelOf(a, b)
<1>1. SectionSpan(a, b)
  BY DEF ChunkCut
<1>2. /\ lo \in Nat /\ p \in Nat /\ x \in Nat /\ y \in Nat
      /\ lo + p <= x /\ x < y /\ y <= Len(AllWords) /\ Len(AllWords) \in Nat
  <2>1. /\ lo \in Nat /\ p \in Nat /\ Count(b) \in Nat
        /\ Count(b) <= Len(AllWords) /\ Len(AllWords) \in Nat
    BY <1>1, SpanCounted
  <2>2. x \in Nat /\ y \in Nat /\ lo + p <= x /\ x < y /\ y <= Count(b)
    BY DEF ChunkCut
  <2> HIDE DEF lo, p
  <2>3. QED
    BY <2>1, <2>2
<1>3. c.content = Part(lo, lo + p) \o Part(x, y)
  BY DEF ChunkCut
<1>4. \A j : Place(a, b, x, j) = IF j <= p THEN lo + j ELSE x + (j - p)
  BY DEF Place
<1> HIDE DEF lo, p
<1>5. /\ Part(lo, lo + p) \in Seq(Word) /\ Len(Part(lo, lo + p)) = p
      /\ \A j \in 1..p : Part(lo, lo + p)[j] = AllWords[lo + j]
  <2>1. lo + p \in lo..Len(AllWords) /\ (lo + p) - lo = p
    BY <1>2
  <2>2. QED
    BY <1>2, <2>1, PartIs
<1>6. /\ Part(x, y) \in Seq(Word) /\ Len(Part(x, y)) = y - x
      /\ \A j \in 1..y - x : Part(x, y)[j] = AllWords[x + j]
  <2>1. y \in x..Len(AllWords)
    BY <1>2
  <2>2. QED
    BY <1>2, <2>1, PartIs
<1>7. /\ c.content \in Seq(Word) /\ Len(c.content) = p + (y - x)
      /\ \A j \in 1..p + (y - x) :
           c.content[j] = IF j <= p THEN Part(lo, lo + p)[j] ELSE Part(x, y)[j - p]
  <2> DEFINE u == Part(lo, lo + p)
             v == Part(x, y)
  <2>1. u \in Seq(Word) /\ v \in Seq(Word) /\ Len(u) = p /\ Len(v) = y - x
    BY <1>5, <1>6
  <2> HIDE DEF u, v
  <2>2. /\ u \o v \in Seq(Word) /\ Len(u \o v) = Len(u) + Len(v)
        /\ \A j \in 1..Len(u) + Len(v) : (u \o v)[j] = IF j <= Len(u) THEN u[j] ELSE v[j - Len(u)]
    BY <2>1, ConcatProperties
  <2>3. /\ u \o v \in Seq(Word) /\ Len(u \o v) = p + (y - x)
        /\ \A j \in 1..p + (y - x) : (u \o v)[j] = IF j <= p THEN u[j] ELSE v[j - p]
    BY ONLY <2>1, <2>2
  <2>4. c.content = u \o v
    BY <1>3 DEF u, v
  <2>5. QED
    BY <2>3, <2>4 DEF u, v
<1>8. ASSUME NEW j \in 1..p + (y - x)
      PROVE  /\ Place(a, b, x, j) \in Nat
             /\ lo < Place(a, b, x, j) /\ Place(a, b, x, j) <= y
             /\ c.content[j] = AllWords[Place(a, b, x, j)]
  <2>1. CASE j <= p
    <3>1. j \in 1..p /\ lo + j \in Nat /\ lo < lo + j /\ lo + j <= y
      BY <1>2, <2>1
    <3>2. QED
      BY <1>4, <1>5, <1>7, <2>1, <3>1
  <2>2. CASE ~(j <= p)
    <3>1. j - p \in 1..y - x /\ x + (j - p) \in Nat /\ lo < x + (j - p) /\ x + (j - p) <= y
      BY <1>2, <2>2
    <3>2. QED
      BY <1>4, <1>6, <1>7, <2>2, <3>1
  <2>3. QED
    BY <2>1, <2>2
<1>9. p + (y - x) \in Nat \ {0}
  BY <1>2
<1>10. QED
  BY <1>7, <1>8, <1>9 DEF lo, p

\* Its heading, and its words without that line.
HomeOf(c) == HeadingOf(Last(c.content)[1])
BodyOf(c) ==
    IF Titled(HomeOf(c)) /\ IsStrictPrefix(Words(HomeOf(c)), c.content)
    THEN SubSeq(c.content, doc[HomeOf(c)].words + 1, Len(c.content)) ELSE c.content

LEMMA BodyIs ==
    ASSUME DocTyped, NEW c, NEW a, NEW b, NEW x, NEW y, ChunkCut(c, a, b, x, y)
    PROVE  /\ \A j \in 1..Len(c.content) :
                c.content[j][1] \in a..b /\ HeadingOf(c.content[j][1]) = HeadOf(a)
           /\ HomeOf(c) = HeadOf(a)
           /\ BodyOf(c) = Part(x, y)
           /\ PeelOf(a, b) # 0 => IsPrefix(Words(a), c.content)
<1> DEFINE lo == Count(a - 1)
           p == PeelOf(a, b)
           s == c.content
           n == Len(c.content)
<1>1. SectionSpan(a, b) /\ y <= Count(b) /\ s = Part(lo, lo + p) \o Part(x, y)
  BY DEF ChunkCut
<1>2. /\ a \in 1..Len(doc) /\ a \in Nat \ {0} /\ b \in a..Len(doc) /\ Len(doc) \in Nat
      /\ lo \in Nat /\ Count(a) \in Nat /\ Count(b) \in Nat
      /\ Count(a) = lo + doc[a].words /\ doc[a].words \in Nat
      /\ Count(b) <= Len(AllWords) /\ Len(AllWords) \in Nat /\ p \in Nat
      /\ p # 0 => p = doc[a].words /\ Titled(HeadOf(a)) /\ HeadOf(a) = a
  BY <1>1, SpanCounted
<1>3. /\ x \in Nat /\ y \in Nat /\ lo + p <= x /\ x < y
  BY DEF ChunkCut
<1>4. /\ s \in Seq(Word) /\ n \in Nat \ {0} /\ n = p + (y - x)
      /\ \A j \in 1..n :
           /\ Place(a, b, x, j) \in Nat
           /\ lo < Place(a, b, x, j) /\ Place(a, b, x, j) <= y
           /\ s[j] = AllWords[Place(a, b, x, j)]
  BY ChunkWords
<1>5. ASSUME NEW j \in 1..n PROVE s[j][1] \in a..b /\ HeadingOf(s[j][1]) = HeadOf(a)
  <2>1. s[j][1] \in a..b
    <3>1. /\ Place(a, b, x, j) \in Nat /\ lo < Place(a, b, x, j) /\ Place(a, b, x, j) <= y
          /\ s[j] = AllWords[Place(a, b, x, j)]
      BY <1>4
    <3>2. Place(a, b, x, j) <= Count(b)
      BY <1>1, <1>2, <1>3, <3>1
    <3>3. QED
      BY <1>1, <3>1, <3>2, LineOfPlace
  <2>2. QED
    BY <1>1, <2>1, UnderHeading
<1>6. HomeOf(c) = HeadOf(a)
  <2>1. n \in 1..n
    BY <1>4
  <2>2. QED
    BY <1>5, <2>1 DEF HomeOf, Last
<1>7. Part(x, y) \in Seq(Word) /\ Len(Part(x, y)) = y - x
  <2>1. y \in x..Len(AllWords)
    BY <1>1, <1>2, <1>3
  <2>2. QED
    BY <1>3, <2>1, PartIs
<1>8. CASE p # 0
  <2>1. p = doc[a].words /\ Titled(HeadOf(a)) /\ HeadOf(a) = a /\ lo + p = Count(a)
    BY <1>2, <1>8
  <2>2. Words(a) = Part(lo, lo + p)
    BY <1>2, <2>1, LineIsPart
  <2>3. Words(a) \in Seq(Word) /\ Len(Words(a)) = p
    BY <1>2, <2>1, LineTyped
  <2> HIDE DEF lo, p
  <2>4. \A i \in 1..p : s[i] = Words(a)[i]
    <3>1. \A i \in 1..Len(Words(a)) + Len(Part(x, y)) :
            s[i] = IF i <= Len(Words(a)) THEN Words(a)[i] ELSE Part(x, y)[i - Len(Words(a))]
      BY <1>1, <1>7, <2>2, <2>3, ConcatProperties
    <3>2. \A i \in 1..p : i \in 1..p + (y - x) /\ i <= p
      BY <1>2, <1>3
    <3>3. Len(Words(a)) = p /\ Len(Words(a)) + Len(Part(x, y)) = p + (y - x)
      BY <1>7, <2>3
    <3>4. QED
      BY ONLY <3>1, <3>2, <3>3
  <2>5. SubSeq(s, 1, p) = Words(a)
    <3>1. \A i \in 1..p : s[i] \in Word
      BY <2>3, <2>4, ElementOfSeq
    <3>2. /\ SubSeq(s, 1, p) \in Seq(Word)
          /\ Len(SubSeq(s, 1, p)) = IF 1 <= p THEN p - 1 + 1 ELSE 0
          /\ \A i \in 1..p - 1 + 1 : SubSeq(s, 1, p)[i] = s[1 + i - 1]
      <4>1. 1 \in Int /\ p \in Int
        BY <1>2
      <4>2. QED
        BY <3>1, <4>1, SubSeqProperties
    <3>3. Len(SubSeq(s, 1, p)) = p
      BY <1>2, <3>2
    <3>4. \A i \in 1..p : SubSeq(s, 1, p)[i] = Words(a)[i]
      <4>1. \A i \in 1..p : i \in 1..p - 1 + 1 /\ 1 + i - 1 = i
        BY <1>2
      <4>2. QED
        BY <2>4, <3>2, <4>1
    <3>5. QED
      BY <2>3, <3>2, <3>3, <3>4, SeqEqual
  <2>6. IsPrefix(Words(a), s)
    <3>1. SubSeq(Words(a), 1, p) = Words(a)
      BY <2>3, SubSeqFull
    <3>2. Len(Words(a)) <= Len(s)
      BY <1>2, <1>3, <1>4, <2>3
    <3>3. QED
      BY <2>3, <2>5, <3>1, <3>2 DEF IsPrefix
  <2>7. Words(a) # s
    BY <1>2, <1>3, <1>4, <2>3
  <2>8. BodyOf(c) = SubSeq(s, p + 1, n)
    BY <1>6, <2>1, <2>6, <2>7 DEF BodyOf, IsStrictPrefix
  <2>9. SubSeq(s, p + 1, n) = Part(x, y)
    <3>1. \A i \in p + 1..n : s[i] \in Word
      <4>1. \A i \in p + 1..n : i \in 1..n
        BY <1>2
      <4>2. QED
        BY <1>4, <4>1, ElementOfSeq
    <3>2. /\ SubSeq(s, p + 1, n) \in Seq(Word)
          /\ Len(SubSeq(s, p + 1, n)) = IF p + 1 <= n THEN n - (p + 1) + 1 ELSE 0
          /\ \A i \in 1..n - (p + 1) + 1 : SubSeq(s, p + 1, n)[i] = s[(p + 1) + i - 1]
      <4>1. p + 1 \in Int /\ n \in Int
        BY <1>2, <1>4
      <4>2. QED
        BY <3>1, <4>1, SubSeqProperties
    <3>3. Len(SubSeq(s, p + 1, n)) = y - x
      BY <1>2, <1>3, <1>4, <3>2
    <3>4. \A i \in 1..y - x : SubSeq(s, p + 1, n)[i] = Part(x, y)[i]
      <4> SUFFICES ASSUME NEW i \in 1..y - x PROVE SubSeq(s, p + 1, n)[i] = Part(x, y)[i]
        OBVIOUS
      <4>1. SubSeq(s, p + 1, n)[i] = s[p + i]
        <5>1. i \in 1..n - (p + 1) + 1 /\ (p + 1) + i - 1 = p + i
          BY <1>2, <1>3, <1>4
        <5>2. QED
          BY <3>2, <5>1
      <4>2. s[p + i] = Part(x, y)[i]
        <5>1. \A k \in 1..Len(Words(a)) + Len(Part(x, y)) :
                s[k] = IF k <= Len(Words(a)) THEN Words(a)[k] ELSE Part(x, y)[k - Len(Words(a))]
          BY <1>1, <1>7, <2>2, <2>3, ConcatProperties
        <5>2. p + i \in 1..p + (y - x) /\ ~(p + i <= p) /\ (p + i) - p = i
          BY <1>2, <1>3
        <5>3. QED
          BY <1>7, <2>3, <5>1, <5>2
      <4>3. QED
        BY <4>1, <4>2
    <3>5. QED
      BY <1>7, <3>2, <3>3, <3>4, SeqEqual
  <2>10. QED
    BY <1>4, <1>5, <1>6, <2>6, <2>8, <2>9 DEF p
<1>9. CASE p = 0
  <2>1. s = Part(x, y)
    <3>1. Part(lo, lo + p) = <<>>
      <4>1. lo + p \in Int /\ lo + 1 \in Int /\ lo + p < lo + 1
        BY <1>2, <1>9
      <4>2. QED
        BY <4>1, SubSeqEmpty DEF Part
    <3>2. QED
      BY <1>1, <1>7, <3>1, ConcatEmptySeq
  <2>2. BodyOf(c) = s
    <3>1. CASE ~Titled(HeadOf(a))
      BY <1>6, <3>1 DEF BodyOf
    <3>2. CASE Titled(HeadOf(a))
      <4>1. HeadOf(a) = a
        BY <3>2 DEF Titled, HeadOf
      <4>2. doc[a].words \in Nat \ {0}
        BY <1>2, <3>2, <4>1 DEF Titled
      <4>3. Count(b) = Count(a)
        BY <1>9, <3>2, <4>2 DEF PeelOf
      <4>4. Words(a) = Part(lo, Count(a)) /\ Words(a) \in Seq(Word) /\ Len(Words(a)) = doc[a].words
        BY <1>2, LineIsPart, LineTyped
      <4>5. ~IsStrictPrefix(Words(a), s)
        <5> SUFFICES ASSUME IsStrictPrefix(Words(a), s) PROVE FALSE
          OBVIOUS
        <5>1. Len(Words(a)) <= Len(s) /\ s # Words(a)
          BY DEF IsStrictPrefix, IsPrefix
        <5>2. doc[a].words <= y - x
          BY <1>4, <1>7, <2>1, <4>4, <5>1
        <5>3. x = lo /\ y = Count(a)
          <6> HIDE DEF lo
          <6>1. QED
            BY <1>1, <1>2, <1>3, <1>9, <4>3, <5>2
        <5>4. QED
          BY <2>1, <4>4, <5>1, <5>3
      <4>6. QED
        BY <1>6, <4>1, <4>5 DEF BodyOf
    <3>3. QED
      BY <3>1, <3>2
  <2>3. QED
    BY <1>4, <1>5, <1>6, <1>9, <2>1, <2>2
<1>10. QED
  BY <1>8, <1>9

---------------------------------------------------------------------------
(* What the chunks so far have of the text.                                *)

\* The words of chunk k that earlier ones have, and what is past as many.
SeenIn(s, k) ==
    {j \in DOMAIN s[k].content : \E i \in 1..k - 1 : s[k].content[j] \in ToSet(s[i].content)}
FreshIn(s, k) == SubSeq(s[k].content, Cardinality(SeenIn(s, k)) + 1, Len(s[k].content))

\* They have the first n words, and what each adds makes these up.
CoverOf(s, n) ==
    /\ n \in 0..Len(AllWords) /\ s \in Seq(ChunkType)
    /\ \A w : (\E k \in 1..Len(s) : w \in ToSet(s[k].content)) <=> \E q \in 1..n : w = AllWords[q]
    /\ \A k \in 1..Len(s) : FreshIn(s, k) \in Seq(Word) /\ FreshIn(s, k) # <<>>
    /\ FlattenSeq([k \in 1..Len(s) |-> FreshIn(s, k)]) = Part(0, n)
    /\ Len(s) <= n

LEMMA NothingCovered ==
    ASSUME DocTyped
    PROVE  CoverOf(<<>>, 0)
<1>1. <<>> \in Seq(ChunkType) /\ Len(<<>>) = 0
  BY EmptySeq
<1>2. Len(AllWords) \in Nat
  BY WordsTyped
<1>3. Part(0, 0) = <<>>
  BY SubSeqEmpty DEF Part
<1>4. FlattenSeq([k \in 1..0 |-> FreshIn(<<>>, k)]) = <<>>
  <2>1. [k \in 1..0 |-> FreshIn(<<>>, k)] = <<>>
    OBVIOUS
  <2>2. FlattenSeq(<<>>) = <<>>
    BY <1>1 DEF FlattenSeq
  <2>3. QED
    BY <2>1, <2>2
<1>5. \A k \in 1..0 : FALSE
  OBVIOUS
<1>6. QED
  BY <1>1, <1>2, <1>3, <1>4, <1>5 DEF CoverOf

\* How many words of a new chunk are in the ones before it.
OldIn(a, b, x, n) == IF n < x THEN 0 ELSE PeelOf(a, b) + (n - x)

LEMMA FreshOfCut ==
    ASSUME DocTyped, NEW c, NEW a, NEW b, NEW x, NEW y, ChunkCut(c, a, b, x, y),
           NEW n \in Nat, n < y,
           \/ n = Count(a - 1) /\ x = n + PeelOf(a, b)
           \/ x <= n
    PROVE  /\ OldIn(a, b, x, n) \in Nat /\ OldIn(a, b, x, n) <= Len(c.content)
           /\ \A j \in 1..Len(c.content) : j <= OldIn(a, b, x, n) <=> Place(a, b, x, j) <= n
           /\ \A q \in n + 1..y :
                /\ OldIn(a, b, x, n) + (q - n) \in 1..Len(c.content)
                /\ Place(a, b, x, OldIn(a, b, x, n) + (q - n)) = q
           /\ SubSeq(c.content, OldIn(a, b, x, n) + 1, Len(c.content)) = Part(n, y)
           /\ Part(n, y) \in Seq(Word) /\ Part(n, y) # <<>>
<1> DEFINE lo == Count(a - 1)
           p == PeelOf(a, b)
           m == OldIn(a, b, x, n)
           s == c.content
<1>1. /\ SectionSpan(a, b) /\ x \in Nat /\ y \in Nat /\ lo + p <= x /\ x < y /\ y <= Count(b)
      /\ (n = lo /\ x = n + p) \/ x <= n
  BY DEF ChunkCut
<1>2. lo \in Nat /\ p \in Nat /\ Count(b) \in Nat /\ Count(b) <= Len(AllWords) /\ Len(AllWords) \in Nat
  BY <1>1, SpanCounted
<1>3. /\ s \in Seq(Word) /\ Len(s) = p + (y - x)
      /\ \A j \in 1..Len(s) : s[j] = AllWords[Place(a, b, x, j)]
  BY ChunkWords
<1>4. \A j : Place(a, b, x, j) = IF j <= p THEN lo + j ELSE x + (j - p)
  BY DEF Place
<1>5. m = IF n < x THEN 0 ELSE p + (n - x)
  BY DEF OldIn
<1> HIDE DEF lo, p, m
<1>6. /\ m \in Nat /\ m <= p + (y - x) /\ p + (y - x) - m = y - n /\ y - n \in Nat \ {0}
      /\ y \in n..Len(AllWords)
  BY <1>1, <1>2, <1>5
<1>7. \A j \in 1..p + (y - x) : j <= m <=> Place(a, b, x, j) <= n
  BY <1>1, <1>2, <1>4, <1>5
<1>8. \A q \in n + 1..y :
        /\ m + (q - n) \in 1..p + (y - x)
        /\ Place(a, b, x, m + (q - n)) = q
  BY <1>1, <1>2, <1>4, <1>5
<1>9. /\ Part(n, y) \in Seq(Word) /\ Len(Part(n, y)) = y - n
      /\ \A i \in 1..y - n : Part(n, y)[i] = AllWords[n + i]
  BY <1>6, PartIs
<1>10. Part(n, y) # <<>>
  <2>1. Len(<<>>) = 0
    BY EmptySeq
  <2>2. QED
    BY <1>6, <1>9, <2>1
<1>11. SubSeq(s, m + 1, Len(s)) = Part(n, y)
  <2>1. /\ SubSeq(s, m + 1, Len(s)) \in Seq(Word)
        /\ Len(SubSeq(s, m + 1, Len(s))) = IF m + 1 <= Len(s) THEN Len(s) - (m + 1) + 1 ELSE 0
        /\ \A i \in 1..Len(s) - (m + 1) + 1 : SubSeq(s, m + 1, Len(s))[i] = s[(m + 1) + i - 1]
    <3>1. \A i \in m + 1..Len(s) : i \in 1..Len(s)
      BY <1>6
    <3>2. \A i \in m + 1..Len(s) : s[i] \in Word
      BY <1>3, <3>1, ElementOfSeq
    <3>3. m + 1 \in Int /\ Len(s) \in Int
      BY <1>3, <1>6, LenProperties
    <3>4. QED
      BY <3>2, <3>3, SubSeqProperties
  <2>2. Len(SubSeq(s, m + 1, Len(s))) = y - n
    BY <1>1, <1>2, <1>3, <1>6, <2>1
  <2>3. \A i \in 1..y - n : SubSeq(s, m + 1, Len(s))[i] = Part(n, y)[i]
    <3> SUFFICES ASSUME NEW i \in 1..y - n
                 PROVE  SubSeq(s, m + 1, Len(s))[i] = Part(n, y)[i]
      OBVIOUS
    <3>1. i \in 1..Len(s) - (m + 1) + 1 /\ (m + 1) + i - 1 = m + i
      BY <1>1, <1>2, <1>3, <1>6
    <3>2. n + i \in n + 1..y /\ (n + i) - n = i
      BY <1>1, <1>6
    <3>3. m + i \in 1..p + (y - x) /\ Place(a, b, x, m + i) = n + i
      BY <1>8, <3>2
    <3>4. QED
      BY <1>3, <1>9, <2>1, <3>1, <3>3
  <2>4. QED
    BY <1>9, <2>1, <2>2, <2>3, SeqEqual
<1>12. m <= Len(s) /\ \A q \in n + 1..y : m + (q - n) \in 1..Len(s)
  BY <1>3, <1>6, <1>8
<1>13. QED
  BY <1>3, <1>6, <1>7, <1>8, <1>9, <1>10, <1>11, <1>12 DEF m

\* Another chunk adds the words from n to y.
LEMMA CoverGrows ==
    ASSUME DocTyped, NEW s, NEW n, CoverOf(s, n), NEW c \in ChunkType,
           NEW a, NEW b, NEW x, NEW y, ChunkCut(c, a, b, x, y), n < y,
           \/ n = Count(a - 1) /\ x = n + PeelOf(a, b)
           \/ x <= n
    PROVE  CoverOf(Append(s, c), y)
<1> DEFINE t == Append(s, c)
           m == OldIn(a, b, x, n)
           e == Len(s)
           At(j) == Place(a, b, x, j)
<1>1. /\ n \in Nat /\ n \in 0..Len(AllWords) /\ s \in Seq(ChunkType) /\ e \in Nat /\ e <= n
      /\ Len(AllWords) \in Nat
  BY WordsTyped, LenProperties DEF CoverOf
<1>2. /\ t \in Seq(ChunkType) /\ Len(t) = e + 1
      /\ \A i \in 1..e : t[i] = s[i]
      /\ t[e + 1] = c
  BY <1>1, AppendProperties
<1>3. /\ m \in Nat /\ m <= Len(c.content)
      /\ \A j \in 1..Len(c.content) : j <= m <=> At(j) <= n
      /\ \A q \in n + 1..y : m + (q - n) \in 1..Len(c.content) /\ At(m + (q - n)) = q
      /\ SubSeq(c.content, m + 1, Len(c.content)) = Part(n, y)
      /\ Part(n, y) \in Seq(Word) /\ Part(n, y) # <<>>
  BY <1>1, FreshOfCut
<1>4. /\ c.content \in Seq(Word) /\ Len(c.content) \in Nat /\ DOMAIN c.content = 1..Len(c.content)
      /\ \A j \in 1..Len(c.content) :
           At(j) \in Nat /\ 0 < At(j) /\ At(j) <= y /\ c.content[j] = AllWords[At(j)]
  <2>1. /\ c.content \in Seq(Word) /\ Len(c.content) \in Nat
        /\ \A j \in 1..Len(c.content) :
             /\ At(j) \in Nat
             /\ Count(a - 1) < At(j) /\ At(j) <= y
             /\ c.content[j] = AllWords[At(j)]
    BY ChunkWords
  <2>2. Count(a - 1) \in Nat
    BY SpanCounted DEF ChunkCut
  <2> HIDE DEF At
  <2>3. QED
    BY <2>1, <2>2, LenProperties
<1>5. y \in Nat /\ y <= Len(AllWords)
  <2>1. SectionSpan(a, b) /\ y \in Nat /\ y <= Count(b)
    BY DEF ChunkCut
  <2>2. Count(b) \in Nat /\ Count(b) <= Len(AllWords)
    BY <2>1, SpanCounted
  <2>3. QED
    BY <1>1, <2>1, <2>2
<1>6. \A w : (\E k \in 1..e : w \in ToSet(s[k].content)) <=> \E q \in 1..n : w = AllWords[q]
  BY DEF CoverOf
<1>7. \A j \in 1..Len(c.content) :
        (\E i \in 1..e : c.content[j] \in ToSet(s[i].content)) <=> At(j) <= n
  <2> SUFFICES ASSUME NEW j \in 1..Len(c.content)
               PROVE  (\E q \in 1..n : c.content[j] = AllWords[q]) <=> At(j) <= n
    BY <1>6
  <2> HIDE DEF At, m
  <2>1. At(j) \in 1..Len(AllWords) /\ c.content[j] = AllWords[At(j)]
    BY <1>1, <1>4, <1>5
  <2>2. \A q \in 1..n : AllWords[At(j)] = AllWords[q] => At(j) = q
    <3>1. \A q \in 1..n : q \in 1..Len(AllWords)
      BY <1>1
    <3>2. QED
      BY <2>1, <3>1, WordsTyped
  <2>3. At(j) <= n => At(j) \in 1..n
    BY <1>1, <2>1
  <2>4. At(j) \in 1..n => At(j) <= n
    BY <1>1
  <2>5. QED
    BY <2>1, <2>2, <2>3, <2>4
<1> HIDE DEF t, m, At
<1>8. FreshIn(t, e + 1) = Part(n, y)
  <2>1. SeenIn(t, e + 1) = 1..m
    <3>1. \A i \in 1..(e + 1) - 1 : i \in 1..e /\ t[i] = s[i]
      BY <1>1, <1>2
    <3>2. SeenIn(t, e + 1) = {j \in 1..Len(c.content) :
                                \E i \in 1..(e + 1) - 1 : c.content[j] \in ToSet(t[i].content)}
      BY <1>2, <1>4 DEF SeenIn
    <3>3. 1..(e + 1) - 1 = 1..e
      BY <1>1
    <3>4. SeenIn(t, e + 1) = {j \in 1..Len(c.content) : At(j) <= n}
      BY <1>2, <1>7, <3>2, <3>3
    <3>5. SeenIn(t, e + 1) = {j \in 1..Len(c.content) : j <= m}
      BY <1>3, <3>4
    <3>6. {j \in 1..Len(c.content) : j <= m} = 1..m
      <4>1. m \in Nat /\ Len(c.content) \in Nat /\ m <= Len(c.content)
        BY <1>3, <1>4
      <4>2. QED
        BY ONLY <4>1
    <3>7. QED
      BY <3>5, <3>6
  <2>2. Cardinality(1..m) = m
    BY <1>3, FS_Interval
  <2>3. QED
    BY <1>2, <1>3, <2>1, <2>2 DEF FreshIn
<1>9. \A k \in 1..e : FreshIn(t, k) = FreshIn(s, k)
  <2> SUFFICES ASSUME NEW k \in 1..e PROVE FreshIn(t, k) = FreshIn(s, k)
    OBVIOUS
  <2>1. \A i \in 1..k - 1 : t[i] = s[i]
    <3>1. \A i \in 1..k - 1 : i \in 1..e
      BY <1>1
    <3>2. QED
      BY <1>2, <3>1
  <2>2. t[k] = s[k]
    BY <1>2
  <2>3. SeenIn(t, k) = SeenIn(s, k)
    BY <2>1, <2>2 DEF SeenIn
  <2>4. QED
    BY <2>2, <2>3 DEF FreshIn
<1>10. \A k \in 1..e + 1 : FreshIn(t, k) \in Seq(Word) /\ FreshIn(t, k) # <<>>
  <2>1. \A k \in 1..e : FreshIn(s, k) \in Seq(Word) /\ FreshIn(s, k) # <<>>
    BY DEF CoverOf
  <2>2. \A k \in 1..e + 1 : k \in 1..e \/ k = e + 1
    BY <1>1
  <2>3. QED
    BY <1>3, <1>8, <1>9, <2>1, <2>2
<1>11. FlattenSeq([k \in 1..e + 1 |-> FreshIn(t, k)]) = Part(0, y)
  <2> DEFINE g == [k \in 1..e + 1 |-> FreshIn(t, k)]
  <2>1. g \in [1..e + 1 -> Seq(Word)]
    BY <1>10
  <2>2. g[e + 1] = Part(n, y)
    BY <1>1, <1>8
  <2>3. [i \in 1..e |-> g[i]] = [k \in 1..e |-> FreshIn(s, k)]
    BY <1>1, <1>9
  <2> HIDE DEF g
  <2>4. FlattenSeq(g) = FlattenSeq([i \in 1..e |-> g[i]]) \o g[e + 1]
    BY <1>1, <2>1, FlattenGrows
  <2>5. FlattenSeq([k \in 1..e |-> FreshIn(s, k)]) = Part(0, n)
    BY DEF CoverOf
  <2>6. Part(0, n) \o Part(n, y) = Part(0, y)
    <3>1. 0 \in Nat /\ n \in 0..Len(AllWords) /\ y \in n..Len(AllWords)
      BY <1>1, <1>5
    <3>2. QED
      BY <3>1, PartsJoin
  <2>7. FlattenSeq(g) = Part(0, y)
    BY <2>2, <2>3, <2>4, <2>5, <2>6
  <2>8. QED
    BY <2>7 DEF g
<1>12. \A w : (\E k \in 1..e + 1 : w \in ToSet(t[k].content)) <=> \E q \in 1..y : w = AllWords[q]
  <2> SUFFICES ASSUME NEW w
               PROVE  (\E k \in 1..e + 1 : w \in ToSet(t[k].content)) <=> \E q \in 1..y : w = AllWords[q]
    OBVIOUS
  <2>1. (\E k \in 1..e + 1 : w \in ToSet(t[k].content))
          <=> (\E k \in 1..e : w \in ToSet(s[k].content)) \/ w \in ToSet(c.content)
    <3>1. \A k \in 1..e + 1 : k \in 1..e \/ k = e + 1
      BY <1>1
    <3>2. e + 1 \in 1..e + 1 /\ \A k \in 1..e : k \in 1..e + 1
      BY <1>1
    <3>3. QED
      BY <1>2, <3>1, <3>2
  <2>2. w \in ToSet(c.content) <=> \E j \in 1..Len(c.content) : w = AllWords[At(j)]
    BY <1>4 DEF ToSet
  <2>3. ASSUME NEW j \in 1..Len(c.content), w = AllWords[At(j)]
        PROVE  \E q \in 1..y : w = AllWords[q]
    <3>1. At(j) \in 1..y
      BY <1>4, <1>5
    <3>2. QED
      BY <2>3, <3>1
  <2>4. ASSUME NEW q \in 1..y, w = AllWords[q]
        PROVE  \/ \E i \in 1..n : w = AllWords[i]
               \/ \E j \in 1..Len(c.content) : w = AllWords[At(j)]
    <3>1. q \in 1..n \/ q \in n + 1..y
      BY <1>1, <1>5
    <3>2. CASE q \in n + 1..y
      <4>1. m + (q - n) \in 1..Len(c.content) /\ At(m + (q - n)) = q
        BY <1>3, <3>2
      <4>2. QED
        BY <2>4, <4>1
    <3>3. QED
      BY <2>4, <3>1, <3>2
  <2>5. \A q \in 1..n : q \in 1..y
    BY <1>1, <1>5
  <2>6. QED
    BY <1>6, <2>1, <2>2, <2>3, <2>4, <2>5
<1>13. e + 1 <= y /\ y \in 0..Len(AllWords)
  BY <1>1, <1>5
<1>14. CoverOf(t, y)
  BY <1>2, <1>10, <1>11, <1>12, <1>13 DEF CoverOf
<1>15. QED
  BY <1>14 DEF t

---------------------------------------------------------------------------
(* Cutting the sections.                                                   *)

Shared == Least(overlap, max_tokens - 1)

\* Of two chunks of a section the first is full, and the second starts with its
\* last words and has more.
Joined(d, c) ==
    HomeOf(c) = HomeOf(d) =>
        /\ Len(BodyOf(d)) = max_tokens /\ Len(BodyOf(c)) > Shared
        /\ SubSeq(BodyOf(c), 1, Shared)
             = SubSeq(BodyOf(d), max_tokens - Shared + 1, max_tokens)

\* A chunk of a section that ends before line n.
Before(c, n) == \E a, b, x, y : ChunkCut(c, a, b, x, y) /\ b < n

\* Where the sections that are left start, and how many words the chunks have.
FromOf(secs) == IF secs = <<>> THEN Len(doc) + 1 ELSE Opens(Head(secs))
MarkOf(secs, st) ==
    Count(FromOf(secs) - 1)
      + (IF st = 0 THEN 0
         ELSE PeelOf(FromOf(secs), Closes(Head(secs))) + (st - Step) + max_tokens)

\* The window before the next one of the same section.
LastCut(secs, st, o) ==
    st # 0 =>
        /\ secs # <<>> /\ o # <<>> /\ st >= Step
        /\ ChunkCut(o[Len(o)], FromOf(secs), Closes(Head(secs)),
                    MarkOf(secs, st) - max_tokens, MarkOf(secs, st))
        /\ MarkOf(secs, st) < Count(Closes(Head(secs)))

CutTold(secs, st, o) ==
    /\ Tiles(secs, FromOf(secs), Len(doc))
    /\ st \in Nat
    /\ \A k \in 1..Len(o) : Before(o[k], IF st = 0 THEN FromOf(secs) ELSE Closes(Head(secs)) + 1)
    /\ \A k \in 2..Len(o) : Joined(o[k - 1], o[k])
    /\ CoverOf(o, MarkOf(secs, st))
    /\ LastCut(secs, st, o)

LEMMA StepIs ==
    ASSUME OptionsTyped
    PROVE  /\ max_tokens \in Nat \ {0} /\ Step \in 1..max_tokens
           /\ Shared = max_tokens - Step /\ Shared \in Nat
  BY DEF OptionsTyped, Step, Shared, Least

LEMMA JoinedApart ==
    ASSUME DocTyped, NEW c, NEW a, NEW b, NEW x, NEW y, ChunkCut(c, a, b, x, y),
           NEW d, Before(d, a)
    PROVE  Joined(d, c)
<1>1. PICK a1, b1, x1, y1 : ChunkCut(d, a1, b1, x1, y1) /\ b1 < a
  BY DEF Before
<1>2. HomeOf(c) = HeadOf(a) /\ HomeOf(d) = HeadOf(a1)
  BY <1>1, BodyIs
<1>3. SectionSpan(a, b) /\ SectionSpan(a1, b1)
  BY <1>1 DEF ChunkCut
<1>4. a \in Nat \ {0} /\ a1 \in Nat \ {0} /\ a1 < a
  BY <1>1, <1>3, LineTyped DEF SectionSpan
<1>5. a \in Boundaries
  BY <1>3, <1>4 DEF SectionSpan
<1>6. HeadOf(a) # HeadOf(a1)
  BY <1>4, <1>5 DEF HeadOf
<1>7. QED
  BY <1>2, <1>6 DEF Joined

LEMMA JoinedWindows ==
    ASSUME DocTyped, OptionsTyped, NEW a, NEW b, NEW x \in Nat,
           NEW d, ChunkCut(d, a, b, x, x + max_tokens),
           NEW y, NEW c, ChunkCut(c, a, b, x + Step, y), x + max_tokens < y
    PROVE  Joined(d, c)
<1>1. BodyOf(d) = Part(x, x + max_tokens) /\ BodyOf(c) = Part(x + Step, y)
  BY BodyIs
<1>2. max_tokens \in Nat \ {0} /\ Step \in 1..max_tokens /\ Shared = max_tokens - Step /\ Shared \in Nat
  BY StepIs
<1>3. y \in Nat /\ y <= Len(AllWords) /\ Len(AllWords) \in Nat
  <2>1. SectionSpan(a, b) /\ y \in Nat /\ y <= Count(b)
    BY DEF ChunkCut
  <2>2. Count(b) \in Nat /\ Count(b) <= Len(AllWords) /\ Len(AllWords) \in Nat
    BY <2>1, SpanCounted
  <2>3. QED
    BY <2>1, <2>2
<1>4. /\ x + max_tokens \in x..Len(AllWords) /\ (x + max_tokens) - x = max_tokens
      /\ x + Step \in Nat /\ y \in x + Step..Len(AllWords)
      /\ Step \in Nat /\ Step \in 0..max_tokens /\ max_tokens \in Step..max_tokens
      /\ Shared \in 0..y - (x + Step)
      /\ (x + Step) + 0 = x + Step /\ (x + Step) + Shared = x + max_tokens
      /\ max_tokens - Shared = Step /\ Shared < y - (x + Step) /\ 0 + 1 = 1
  BY <1>2, <1>3
<1>5. Len(BodyOf(d)) = max_tokens
  <2>1. Len(Part(x, x + max_tokens)) = (x + max_tokens) - x
    BY <1>4, PartIs
  <2>2. QED
    BY <1>1, <1>4, <2>1
<1>6. Len(BodyOf(c)) > Shared
  <2>1. Len(Part(x + Step, y)) = y - (x + Step)
    BY <1>4, PartIs
  <2>2. QED
    BY <1>1, <1>2, <1>3, <1>4, <2>1
<1>7. SubSeq(BodyOf(d), max_tokens - Shared + 1, max_tokens) = Part(x + Step, x + max_tokens)
  <2>1. max_tokens \in Step..(x + max_tokens) - x /\ Step \in 0..(x + max_tokens) - x
    BY <1>4
  <2>2. SubSeq(Part(x, x + max_tokens), Step + 1, max_tokens) = Part(x + Step, x + max_tokens)
    BY <1>4, <2>1, PartOfPart
  <2>3. QED
    BY <1>1, <1>4, <2>2
<1>8. SubSeq(BodyOf(c), 1, Shared) = Part(x + Step, x + max_tokens)
  <2>1. 0 \in 0..y - (x + Step)
    BY <1>2, <1>4
  <2>2. SubSeq(Part(x + Step, y), 0 + 1, Shared) = Part((x + Step) + 0, (x + Step) + Shared)
    BY <1>4, <2>1, PartOfPart
  <2>3. QED
    BY <1>1, <1>4, <2>2
<1>9. QED
  BY <1>5, <1>6, <1>7, <1>8 DEF Joined

\* The first of the sections that are left, and where the next ones start.
LEMMA SectionHead ==
    ASSUME DocTyped, NEW st, NEW o, CutTold(sections, st, o), sections # <<>>,
           NEW a, a = Opens(Section), NEW b, b = Closes(Section)
    PROVE  /\ FromOf(sections) = a /\ SectionTold(Section) /\ SectionSpan(a, b) /\ Closed(b)
           /\ Section \in SectionType
           /\ a \in Nat \ {0} /\ b \in Nat /\ b - 0 = b /\ (b + 1) - 1 = b
           /\ FromOf(Tail(sections)) = b + 1
           /\ Tiles(Tail(sections), b + 1, Len(doc))
<1>1. Tiles(sections, a, Len(doc)) /\ FromOf(sections) = a
  BY DEF CutTold, FromOf, Section
<1>2. /\ Tiles(Tail(sections), b + 1, Len(doc))
      /\ SectionTold(Section) /\ Section \in SectionType
      /\ Tail(sections) = <<>> => b = Len(doc)
      /\ Tail(sections) # <<>> => /\ Opens(Head(Tail(sections))) = b + 1
                                  /\ SectionTold(Head(Tail(sections)))
  BY <1>1, TilesTail DEF Section
<1>3. SectionSpan(a, b)
  BY <1>2 DEF SectionTold
<1>4. a \in Nat \ {0} /\ b \in Nat /\ b >= a /\ Len(doc) \in Nat
  BY <1>3, SpanCounted
<1>5. FromOf(Tail(sections)) = b + 1
  BY <1>2 DEF FromOf
<1>6. Closed(b)
  <2>1. CASE Tail(sections) = <<>>
    BY <1>2, <2>1 DEF Closed
  <2>2. CASE Tail(sections) # <<>>
    <3>1. SectionSpan(b + 1, Closes(Head(Tail(sections))))
      BY <1>2, <2>2 DEF SectionTold
    <3>2. b + 1 # 1
      BY <1>4
    <3>3. QED
      BY <3>1, <3>2 DEF SectionSpan, Closed
  <2>3. QED
    BY <2>1, <2>2
<1>7. QED
  BY <1>1, <1>2, <1>3, <1>4, <1>5, <1>6

\* Another chunk of the first section.
LEMMA ChunkAdded ==
    ASSUME DocTyped, OptionsTyped, CutTold(sections, start, out), sections # <<>>,
           NEW a, a = Opens(Section), NEW b, b = Closes(Section),
           NEW c \in ChunkType, NEW x, NEW y, ChunkCut(c, a, b, x, y),
           MarkOf(sections, start) < y,
           start = 0 => x = Count(a - 1) + PeelOf(a, b),
           start # 0 => x = MarkOf(sections, start) - max_tokens + Step
    PROVE  /\ \A k \in 1..Len(Append(out, c)) : Before(Append(out, c)[k], b + 1)
           /\ \A k \in 2..Len(Append(out, c)) : Joined(Append(out, c)[k - 1], Append(out, c)[k])
           /\ CoverOf(Append(out, c), y)
           /\ Append(out, c) # <<>> /\ Append(out, c)[Len(Append(out, c))] = c
<1> DEFINE t == Append(out, c)
           e == Len(out)
           n == MarkOf(sections, start)
<1>1. /\ FromOf(sections) = a /\ SectionSpan(a, b) /\ a \in Nat \ {0} /\ b \in Nat /\ a <= b
  <2>1. /\ FromOf(sections) = a /\ SectionSpan(a, b) /\ a \in Nat \ {0} /\ b \in Nat
    BY SectionHead
  <2>2. b \in a..Len(doc)
    BY <2>1 DEF SectionSpan
  <2>3. QED
    BY <2>1, <2>2
<1>2. /\ CoverOf(out, n) /\ out \in Seq(ChunkType) /\ e \in Nat /\ n \in Nat
  <2>1. Len(AllWords) \in Nat
    BY WordsTyped
  <2>2. QED
    BY <2>1, LenProperties DEF CutTold, CoverOf
<1>3. /\ t \in Seq(ChunkType) /\ Len(t) = e + 1
      /\ \A i \in 1..e : t[i] = out[i]
      /\ t[e + 1] = c
  BY <1>2, AppendProperties
<1>4. \A k \in 1..e : Before(out[k], IF start = 0 THEN a ELSE b + 1)
  BY <1>1 DEF CutTold, Section
<1>5. \A k \in 1..e : Before(out[k], b + 1)
  <2> SUFFICES ASSUME NEW k \in 1..e PROVE Before(out[k], b + 1)
    OBVIOUS
  <2>1. PICK a1, b1, x1, y1 : ChunkCut(out[k], a1, b1, x1, y1) /\ b1 < IF start = 0 THEN a ELSE b + 1
    BY <1>4 DEF Before
  <2>2. b1 \in Nat
    BY <2>1, SpanCounted DEF ChunkCut
  <2>3. b1 < b + 1
    BY <1>1, <2>1, <2>2
  <2>4. QED
    BY <2>1, <2>3 DEF Before
<1>6. Before(c, b + 1)
  <2>1. b < b + 1
    BY <1>1
  <2>2. QED
    BY <2>1 DEF Before
<1>7. max_tokens \in Nat \ {0} /\ Step \in 1..max_tokens
  BY StepIs
<1>8. n < y /\ ((n = Count(a - 1) /\ x = n + PeelOf(a, b)) \/ x <= n)
  <2>1. CASE start = 0
    <3>1. Count(a - 1) \in Nat
      BY <1>1, SpanCounted
    <3>2. n = Count(a - 1)
      BY <1>1, <2>1, <3>1 DEF MarkOf
    <3>3. QED
      BY <2>1, <3>2
  <2>2. CASE start # 0
    <3>1. x = n - max_tokens + Step
      BY <2>2
    <3> HIDE DEF n
    <3>2. x <= n
      BY <1>2, <1>7, <3>1
    <3>3. QED
      BY <3>2 DEF n
  <2>3. QED
    BY <2>1, <2>2
<1> HIDE DEF n
<1>9. CoverOf(t, y)
  BY <1>2, <1>8, CoverGrows
<1>10. e # 0 => Joined(out[e], c)
  <2> SUFFICES ASSUME e # 0 PROVE Joined(out[e], c)
    OBVIOUS
  <2>1. CASE start = 0
    <3>1. Before(out[e], a)
      BY <1>2, <1>4, <2>1
    <3>2. QED
      BY <3>1, JoinedApart
  <2>2. CASE start # 0
    <3>1. ChunkCut(out[e], a, b, n - max_tokens, n)
      BY <1>1, <2>2 DEF CutTold, LastCut, n, Section
    <3>2. n - max_tokens \in Nat /\ (n - max_tokens) + max_tokens = n
          /\ x = (n - max_tokens) + Step
      <4>1. n - max_tokens \in Nat
        BY <3>1 DEF ChunkCut
      <4>2. QED
        BY <1>2, <1>7, <2>2, <4>1 DEF n
    <3>3. QED
      BY <1>8, <3>1, <3>2, JoinedWindows
  <2>3. QED
    BY <2>1, <2>2
<1>11. \A k \in 2..e : Joined(out[k - 1], out[k])
  BY DEF CutTold
<1> HIDE DEF t
<1>12. \A k \in 1..e + 1 : Before(t[k], b + 1)
  <2>1. \A k \in 1..e + 1 : k \in 1..e \/ k = e + 1
    BY <1>2
  <2>2. QED
    BY <1>3, <1>5, <1>6, <2>1
<1>13. ASSUME NEW k \in 2..e + 1 PROVE Joined(t[k - 1], t[k])
  <2>1. CASE k = e + 1
    <3>1. k - 1 = e /\ e \in 1..e /\ e # 0
      BY <1>2, <2>1
    <3>2. t[k - 1] = out[e] /\ t[k] = c
      BY <1>3, <2>1, <3>1
    <3>3. QED
      BY <1>10, <3>1, <3>2
  <2>2. CASE k # e + 1
    <3>1. k \in 2..e /\ k \in 1..e /\ k - 1 \in 1..e
      BY <1>2, <2>2
    <3>2. QED
      BY <1>3, <1>11, <3>1
  <2>3. QED
    BY <2>1, <2>2
<1>14. t # <<>>
  <2>1. Len(t) # 0 /\ Len(<<>>) = 0
    BY <1>2, <1>3, EmptySeq
  <2>2. QED
    BY <2>1
<1>15. QED
  BY <1>3, <1>9, <1>12, <1>13, <1>14 DEF t

\* The first section is cut.
LEMMA SectionDone ==
    ASSUME DocTyped, NEW st, NEW u, CutTold(sections, st, u), sections # <<>>,
           NEW b, b = Closes(Section), NEW o,
           \A k \in 1..Len(o) : Before(o[k], b + 1),
           \A k \in 2..Len(o) : Joined(o[k - 1], o[k]),
           CoverOf(o, Count(b))
    PROVE  CutTold(Tail(sections), 0, o)
<1>1. /\ FromOf(Tail(sections)) = b + 1 /\ Tiles(Tail(sections), b + 1, Len(doc))
      /\ SectionSpan(Opens(Section), b) /\ (b + 1) - 1 = b
  BY SectionHead
<1>2. Count(b) \in Nat
  BY <1>1, SpanCounted
<1>3. MarkOf(Tail(sections), 0) = Count(b)
  BY <1>1, <1>2 DEF MarkOf
<1>4. LastCut(Tail(sections), 0, o)
  BY DEF LastCut
<1>5. QED
  BY <1>1, <1>3, <1>4 DEF CutTold

\* Where the next window starts.
LEMMA StartIs ==
    ASSUME DocTyped, OptionsTyped, CutTold(sections, start, out), sections # <<>>,
           NEW a, a = Opens(Section), NEW b, b = Closes(Section)
    PROVE  /\ start \in Nat /\ Count(a - 1) \in Nat /\ Count(b) \in Nat /\ PeelOf(a, b) \in Nat
           /\ Count(a - 1) + PeelOf(a, b) <= Count(b)
           /\ Count(b) <= Len(AllWords) /\ Len(AllWords) \in Nat
           /\ PeelOf(a, b) # 0 => Count(a - 1) + PeelOf(a, b) < Count(b)
           /\ start = 0 => MarkOf(sections, start) = Count(a - 1)
           /\ start # 0 =>
                /\ start >= Step
                /\ MarkOf(sections, start)
                     = Count(a - 1) + (PeelOf(a, b) + (start - Step) + max_tokens)
                /\ MarkOf(sections, start) < Count(b)
                /\ Count(a - 1) + PeelOf(a, b) + start < Count(b)
                /\ Count(b) - Count(a - 1) > max_tokens
<1>1. FromOf(sections) = a /\ SectionSpan(a, b) /\ start \in Nat
  BY SectionHead DEF CutTold
<1>2. /\ Count(a - 1) \in Nat /\ Count(b) \in Nat /\ PeelOf(a, b) \in Nat
      /\ Count(a - 1) + PeelOf(a, b) <= Count(b)
      /\ Count(b) <= Len(AllWords) /\ Len(AllWords) \in Nat
      /\ PeelOf(a, b) # 0 => Count(a - 1) + PeelOf(a, b) < Count(b)
  BY <1>1, SpanCounted
<1>3. MarkOf(sections, start) =
        Count(a - 1) + (IF start = 0 THEN 0 ELSE PeelOf(a, b) + (start - Step) + max_tokens)
  BY <1>1 DEF MarkOf, Section
<1>4. start # 0 => start >= Step /\ MarkOf(sections, start) < Count(b)
  BY DEF CutTold, LastCut, Section
<1>5. max_tokens \in Nat \ {0} /\ Step \in 1..max_tokens
  BY StepIs
<1>6. QED
  BY <1>1, <1>2, <1>3, <1>4, <1>5

LEMMA EndOfTextTold ==
    ASSUME DocTyped, OptionsTyped, Walking, EndOfText
    PROVE  /\ CutTold(sections', start', out')
           /\ next' = Len(doc) + 1 /\ in_fence' \in BOOLEAN
           /\ stack' \in [1..3 -> 0..Len(doc)] /\ cur' = Untitled /\ pc' = "cut"
<1>1. /\ next > Len(doc) /\ sections' = Flushed /\ cur' = Untitled /\ pc' = "cut"
      /\ UNCHANGED <<next, in_fence, stack, start, out>>
  BY DEF EndOfText
<1>2. /\ next \in 1..Len(doc) + 1 /\ start = 0 /\ out = <<>> /\ in_fence \in BOOLEAN
      /\ stack \in [1..3 -> 0..Len(doc)]
  BY DEF Walking
<1>3. Len(doc) \in Nat /\ next = Len(doc) + 1 /\ next - 1 = Len(doc)
  BY <1>1, <1>2, LenProperties DEF DocTyped
<1>4. Tiles(Flushed, 1, Len(doc))
  BY <1>3, SectionFlushed
<1>5. FromOf(Flushed) = 1
  <2>1. CASE Flushed = <<>>
    BY <1>4, <2>1 DEF Tiles, FromOf
  <2>2. CASE Flushed # <<>>
    <3>1. Opens(Head(Flushed)) = 1
      BY <1>4, <2>2, TilesTail
    <3>2. QED
      BY <2>2, <3>1 DEF FromOf
  <2>3. QED
    BY <2>1, <2>2
<1>6. MarkOf(Flushed, 0) = 0
  <2>1. 1 - 1 = 0 /\ 0 + 0 = 0
    OBVIOUS
  <2>2. Count(0) = 0
    BY UptoNone
  <2>3. QED
    BY <1>5, <2>1, <2>2 DEF MarkOf
<1>7. CoverOf(<<>>, 0)
  BY NothingCovered
<1>8. Len(<<>>) = 0 /\ (\A k \in 1..0 : FALSE) /\ \A k \in 2..0 : FALSE
  BY EmptySeq
<1>9. LastCut(Flushed, 0, <<>>)
  BY DEF LastCut
<1>10. CutTold(Flushed, 0, <<>>)
  BY <1>4, <1>5, <1>6, <1>7, <1>8, <1>9 DEF CutTold
<1>11. QED
  BY <1>1, <1>2, <1>3, <1>10

LEMMA BlankTold ==
    ASSUME DocTyped, OptionsTyped, CutTold(sections, start, out), Blank
    PROVE  CutTold(sections', start', out')
<1>1. /\ sections # <<>> /\ Text(Section) = <<>> /\ sections' = Tail(sections)
      /\ UNCHANGED <<start, out>>
  BY DEF Blank, Cutting
<1> DEFINE a == Opens(Section)
           b == Closes(Section)
<1>2. SectionTold(Section)
  BY <1>1, SectionHead
<1>3. /\ start \in Nat /\ Count(a - 1) \in Nat /\ Count(b) \in Nat
      /\ start = 0 => MarkOf(sections, start) = Count(a - 1)
      /\ start # 0 => Count(b) - Count(a - 1) > max_tokens
  <2> HIDE DEF a, b
  <2>1. a = Opens(Section) /\ b = Closes(Section)
    BY DEF a, b
  <2>2. QED
    BY <1>1, <2>1, StartIs
<1>4. Len(Text(Section)) = Count(b) - Count(a - 1)
  <2> HIDE DEF a, b
  <2>1. a = Opens(Section) /\ b = Closes(Section)
    BY DEF a, b
  <2>2. QED
    BY <1>2, <2>1, SectionCut
<1>5. Len(Text(Section)) = 0
  BY <1>1, EmptySeq
<1>6. max_tokens \in Nat \ {0}
  BY StepIs
<1>7. start = 0 /\ Count(b) = Count(a - 1)
  <2> HIDE DEF a, b
  <2>1. QED
    BY <1>3, <1>4, <1>5, <1>6
<1>8. CoverOf(out, Count(b)) /\ \A k \in 2..Len(out) : Joined(out[k - 1], out[k])
  BY <1>3, <1>7 DEF CutTold
<1>9. \A k \in 1..Len(out) : Before(out[k], b + 1)
  <2>1. FromOf(sections) = a /\ SectionSpan(a, b)
    BY <1>1, SectionHead
  <2>2. a \in Nat /\ b \in Nat /\ a <= b
    BY <2>1, LineTyped DEF SectionSpan
  <2> HIDE DEF a, b
  <2> SUFFICES ASSUME NEW k \in 1..Len(out) PROVE Before(out[k], b + 1)
    OBVIOUS
  <2>3. Before(out[k], a)
    BY <1>7, <2>1 DEF CutTold
  <2>4. PICK a1, b1, x1, y1 : ChunkCut(out[k], a1, b1, x1, y1) /\ b1 < a
    BY <2>3 DEF Before
  <2>5. b1 \in Nat
    BY <2>4, SpanCounted DEF ChunkCut
  <2>6. b1 < b + 1
    BY <2>2, <2>4, <2>5
  <2>7. QED
    BY <2>4, <2>6 DEF Before
<1>10. CutTold(Tail(sections), 0, out)
  <2> HIDE DEF a, b
  <2>1. b = Closes(Section)
    BY DEF b
  <2>2. QED
    BY <1>1, <1>8, <1>9, <2>1, SectionDone
<1>11. QED
  BY <1>1, <1>7, <1>10

\* What make_chunk makes of a window is a chunk of the section.
LEMMA ChunkMade ==
    ASSUME DocTyped, OptionsTyped, CutTold(sections, start, out), sections # <<>>,
           NEW a, a = Opens(Section), NEW b, b = Closes(Section),
           NEW x \in Nat, NEW y \in Nat,
           Count(a - 1) + PeelOf(a, b) <= x, x < y, y <= Count(b), y - x <= max_tokens,
           NEW content,
           content = Part(Count(a - 1), Count(a - 1) + PeelOf(a, b)) \o Part(x, y)
    PROVE  make_chunk(content) \in ChunkType /\ ChunkCut(make_chunk(content), a, b, x, y)
<1>1. /\ SectionTold(Section) /\ SectionSpan(a, b) /\ Closed(b) /\ Section \in SectionType
  BY SectionHead
<1>2. /\ Section.heading = (IF Titled(HeadOf(a)) THEN HeadOf(a) ELSE 0)
      /\ PathTold(Section.path, HeadOf(a))
  BY <1>1 DEF SectionTold
<1>3. ChunkCut(make_chunk(content), a, b, x, y)
  BY <1>1, <1>2 DEF ChunkCut, make_chunk
<1>4. content \in Seq(Word)
  <2>1. make_chunk(content).content \in Seq(Word)
    BY <1>3, ChunkWords
  <2>2. QED
    BY <2>1 DEF make_chunk
<1>5. make_chunk(content) \in ChunkType
  BY <1>1, <1>4 DEF make_chunk, ChunkType, SectionType
<1>6. QED
  BY <1>3, <1>5

LEMMA WholeTold ==
    ASSUME DocTyped, OptionsTyped, CutTold(sections, start, out), Whole
    PROVE  CutTold(sections', start', out')
<1> DEFINE text == Text(Section)
           c == make_chunk(text)
<1>1. /\ sections # <<>> /\ Len(text) \in 1..max_tokens /\ sections' = Tail(sections)
      /\ out' = Append(out, c) /\ start' = start
  BY DEF Whole, Cutting
<1>2. PICK a, b : a = Opens(Section) /\ b = Closes(Section)
  OBVIOUS
<1> DEFINE lo == Count(a - 1)
           hi == Count(b)
           p == PeelOf(a, b)
<1>3. /\ start \in Nat /\ lo \in Nat /\ hi \in Nat /\ p \in Nat /\ lo + p <= hi
      /\ hi <= Len(AllWords) /\ Len(AllWords) \in Nat
      /\ p # 0 => lo + p < hi
      /\ start = 0 => MarkOf(sections, start) = lo
      /\ start # 0 => hi - lo > max_tokens
  BY <1>1, <1>2, StartIs
<1>4. text = Part(lo, hi) /\ Len(text) = hi - lo
  <2>1. SectionTold(Section)
    BY <1>1, SectionHead
  <2>2. QED
    BY <1>2, <2>1, SectionCut
<1>5. max_tokens \in Nat \ {0}
  BY StepIs
<1> HIDE DEF text
<1>6. /\ start = 0 /\ lo + p \in Nat /\ lo + p < hi /\ hi - (lo + p) <= max_tokens
      /\ MarkOf(sections, start) < hi
  <2> HIDE DEF lo, hi, p
  <2>1. start = 0
    BY <1>1, <1>3, <1>4, <1>5
  <2>2. QED
    BY <1>1, <1>3, <1>4, <1>5, <2>1
<1>7. text = Part(lo, lo + p) \o Part(lo + p, hi)
  <2> HIDE DEF lo, hi, p
  <2>1. lo + p \in lo..Len(AllWords) /\ hi \in lo + p..Len(AllWords)
    BY <1>3
  <2>2. QED
    BY <1>3, <1>4, <2>1, PartsJoin
<1>8. c \in ChunkType /\ ChunkCut(c, a, b, lo + p, hi)
  <2>1. lo + p \in Nat /\ hi \in Nat /\ lo + p <= lo + p /\ hi <= hi
    BY <1>3, <1>6
  <2>2. QED
    BY <1>1, <1>2, <1>6, <1>7, <2>1, ChunkMade
<1> HIDE DEF c
<1>9. /\ \A k \in 1..Len(Append(out, c)) : Before(Append(out, c)[k], b + 1)
      /\ \A k \in 2..Len(Append(out, c)) : Joined(Append(out, c)[k - 1], Append(out, c)[k])
      /\ CoverOf(Append(out, c), hi)
  <2>1. start = 0 /\ MarkOf(sections, start) < hi
    BY <1>6
  <2>2. QED
    BY <1>1, <1>2, <1>8, <2>1, ChunkAdded
<1>10. CutTold(Tail(sections), 0, Append(out, c))
  BY <1>1, <1>2, <1>9, SectionDone
<1>11. QED
  BY <1>1, <1>6, <1>10

LEMMA WindowTold ==
    ASSUME DocTyped, OptionsTyped, CutTold(sections, start, out), Window
    PROVE  CutTold(sections', start', out')
<1> DEFINE content == Peeled \o SubSeq(Rest, start + 1, End)
           c == make_chunk(content)
<1>1. /\ sections # <<>> /\ Len(Text(Section)) > max_tokens /\ out' = Append(out, c)
      /\ AtEnd => start' = 0 /\ sections' = Tail(sections)
      /\ ~AtEnd => start' = start + Step /\ sections' = sections
  BY DEF Window, Cutting
<1>2. PICK a, b : a = Opens(Section) /\ b = Closes(Section)
  OBVIOUS
<1> DEFINE lo == Count(a - 1)
           hi == Count(b)
           p == PeelOf(a, b)
           n == MarkOf(sections, start)
           x == (lo + p) + start
           y == (lo + p) + End
<1>3. /\ start \in Nat /\ lo \in Nat /\ hi \in Nat /\ p \in Nat /\ lo + p <= hi
      /\ hi <= Len(AllWords) /\ Len(AllWords) \in Nat
      /\ p # 0 => lo + p < hi
      /\ start = 0 => n = lo
      /\ start # 0 =>
           /\ start >= Step /\ n = lo + (p + (start - Step) + max_tokens)
           /\ n < hi /\ lo + p + start < hi
  BY <1>1, <1>2, StartIs
<1>4. /\ SectionTold(Section) /\ FromOf(sections) = a
      /\ Len(Text(Section)) = hi - lo
      /\ Peeled = Part(lo, lo + p)
      /\ Rest = Part(lo + p, hi) /\ Len(Rest) = hi - (lo + p)
  <2>1. SectionTold(Section) /\ FromOf(sections) = a
    BY <1>1, <1>2, SectionHead
  <2>2. QED
    BY <1>2, <2>1, SectionCut
<1>5. max_tokens \in Nat \ {0} /\ Step \in 1..max_tokens
  BY StepIs
<1>6. End = Least(start + max_tokens, hi - (lo + p)) /\ (AtEnd <=> End = hi - (lo + p))
  BY <1>4 DEF End, AtEnd
<1>16. x = (lo + p) + start /\ y = (lo + p) + End
  OBVIOUS
<1> HIDE DEF x, y, content, n
<1>7. /\ start < hi - (lo + p) /\ End \in Nat /\ start < End /\ End <= hi - (lo + p)
      /\ End <= start + max_tokens
      /\ AtEnd => End = hi - (lo + p)
      /\ ~AtEnd => End = start + max_tokens /\ start + max_tokens < hi - (lo + p)
  <2> HIDE DEF lo, hi, p
  <2>1. start < hi - (lo + p)
    BY <1>1, <1>3, <1>4, <1>5
  <2>2. QED
    BY <1>3, <1>5, <1>6, <2>1 DEF Least
<1>8. /\ x \in Nat /\ y \in Nat /\ lo + p <= x /\ x < y /\ y <= hi /\ y - x <= max_tokens
      /\ n < y
      /\ start = 0 => x = lo + p
      /\ start # 0 => x = n - max_tokens + Step
      /\ AtEnd => y = hi
      /\ ~AtEnd => y = x + max_tokens /\ x + max_tokens < hi
  <2> HIDE DEF lo, hi, p
  <2>1. x \in Nat /\ y \in Nat /\ lo + p <= x /\ x < y /\ y <= hi /\ y - x <= max_tokens
    BY <1>3, <1>5, <1>7, <1>16
  <2>2. start = 0 => x = lo + p
    BY <1>3, <1>16
  <2>3. start # 0 => x = n - max_tokens + Step
    BY <1>3, <1>5, <1>16
  <2>4. AtEnd => y = hi
    BY <1>3, <1>7, <1>16
  <2>5. ~AtEnd => y = x + max_tokens /\ x + max_tokens < hi
    BY <1>3, <1>5, <1>7, <1>16
  <2>6. n < y
    <3>1. CASE start = 0
      BY <1>3, <2>1, <3>1
    <3>2. CASE start # 0
      BY <1>3, <1>5, <2>1, <2>3, <2>4, <2>5, <3>2
    <3>3. QED
      BY <3>1, <3>2
  <2>7. QED
    BY <2>1, <2>2, <2>3, <2>4, <2>5, <2>6
<1>9. content = Part(lo, lo + p) \o Part(x, y)
  <2> HIDE DEF lo, hi, p
  <2>1. /\ lo + p \in Nat /\ hi \in lo + p..Len(AllWords)
        /\ start \in 0..hi - (lo + p) /\ End \in start..hi - (lo + p)
    BY <1>3, <1>7
  <2>2. SubSeq(Part(lo + p, hi), start + 1, End) = Part((lo + p) + start, (lo + p) + End)
    BY <2>1, PartOfPart
  <2>3. QED
    BY <1>4, <1>16, <2>2 DEF content
<1>10. c \in ChunkType /\ ChunkCut(c, a, b, x, y)
  BY <1>1, <1>2, <1>8, <1>9, ChunkMade
<1> HIDE DEF c
<1>11. /\ \A k \in 1..Len(Append(out, c)) : Before(Append(out, c)[k], b + 1)
       /\ \A k \in 2..Len(Append(out, c)) : Joined(Append(out, c)[k - 1], Append(out, c)[k])
       /\ CoverOf(Append(out, c), y)
       /\ Append(out, c) # <<>> /\ Append(out, c)[Len(Append(out, c))] = c
  <2>1. /\ MarkOf(sections, start) < y
        /\ start = 0 => x = Count(a - 1) + PeelOf(a, b)
        /\ start # 0 => x = MarkOf(sections, start) - max_tokens + Step
    BY <1>8 DEF n
  <2>2. QED
    BY <1>1, <1>2, <1>10, <2>1, ChunkAdded
<1>12. CASE AtEnd
  <2>1. CoverOf(Append(out, c), Count(b))
    BY <1>8, <1>11, <1>12
  <2>2. CutTold(Tail(sections), 0, Append(out, c))
    BY <1>1, <1>2, <1>11, <2>1, SectionDone
  <2>3. QED
    BY <1>1, <1>12, <2>2
<1>13. CASE ~AtEnd
  <2> DEFINE st == start + Step
             o == Append(out, c)
  <2>1. /\ st \in Nat /\ st # 0 /\ st >= Step /\ st - Step = start
    BY <1>3, <1>5
  <2>2. y = x + max_tokens /\ y < hi /\ y - max_tokens = x
    <3> HIDE DEF lo, hi, p
    <3>1. QED
      BY <1>3, <1>5, <1>8, <1>13
  <2>3. MarkOf(sections, st) = y
    <3>1. MarkOf(sections, st) = lo + (p + (st - Step) + max_tokens)
      BY <1>2, <1>4, <2>1 DEF MarkOf, Section
    <3> HIDE DEF lo, hi, p, st
    <3>2. QED
      BY <1>3, <1>5, <1>16, <2>1, <2>2, <3>1
  <2>4. Head(sections) = Section
    BY DEF Section
  <2> HIDE DEF st, o
  <2>5. LastCut(sections, st, o)
    <3>1. o # <<>> /\ ChunkCut(o[Len(o)], a, b, x, y)
      BY <1>10, <1>11 DEF o
    <3>2. QED
      BY <1>1, <1>2, <1>4, <2>1, <2>2, <2>3, <2>4, <3>1 DEF LastCut
  <2>6. /\ Tiles(sections, FromOf(sections), Len(doc))
        /\ \A k \in 1..Len(o) : Before(o[k], Closes(Head(sections)) + 1)
        /\ \A k \in 2..Len(o) : Joined(o[k - 1], o[k])
        /\ CoverOf(o, MarkOf(sections, st))
    BY <1>2, <1>11, <2>3, <2>4 DEF CutTold, o
  <2>7. CutTold(sections, st, o)
    BY <2>1, <2>5, <2>6 DEF CutTold
  <2>8. QED
    BY <1>1, <1>13, <2>7 DEF st, o
<1>14. QED
  BY <1>12, <1>13

---------------------------------------------------------------------------
(* The invariant of the chunker.                                           *)

CutInv ==
    /\ next = Len(doc) + 1 /\ in_fence \in BOOLEAN
    /\ stack \in [1..3 -> 0..Len(doc)] /\ cur = Untitled
    /\ CutTold(sections, start, out)

\* The document is read into sections that tile it, and these into chunks that
\* have the words before a mark.
ChunkerInv ==
    /\ DocTyped /\ DocRead /\ OptionsTyped
    /\ pc \in {"walk", "cut", "done"}
    /\ pc = "walk" => Walking
    /\ pc # "walk" => CutInv
    /\ pc = "done" => sections = <<>>

\* What is true of the chunks of a document stays so.
LEMMA SameText ==
    ASSUME UNCHANGED input
    PROVE  /\ DocTyped' <=> DocTyped
           /\ DocRead' <=> DocRead
           /\ OptionsTyped' <=> OptionsTyped
           /\ \A s, st, o : CutTold(s, st, o)' <=> CutTold(s, st, o)
<1>1. doc' = doc /\ markdown' = markdown /\ max_tokens' = max_tokens /\ overlap' = overlap
  BY DEF input
<1>2. /\ Boundaries' = Boundaries
      /\ \A n : HeadOf(n)' = HeadOf(n)
      /\ \A n : Titled(n)' <=> Titled(n)
      /\ \A s, n : PathTold(s, n)' <=> PathTold(s, n)
      /\ \A a, b : SectionSpan(a, b)' <=> SectionSpan(a, b)
      /\ \A s, a, b : Tiles(s, a, b)' <=> Tiles(s, a, b)
  BY <1>1, SameDocument
<1>3. AllWords' = AllWords /\ \A n : Words(n)' = Words(n)
  BY <1>1 DEF AllWords, Words
<1>4. \A n : Count(n)' = Count(n)
  BY <1>3 DEF Count, Upto
<1>5. \A x, y : Part(x, y)' = Part(x, y)
  BY <1>3 DEF Part
<1>6. \A a, b : PeelOf(a, b)' = PeelOf(a, b)
  BY <1>1, <1>2, <1>4 DEF PeelOf
<1>7. \A b : Closed(b)' <=> Closed(b)
  BY <1>1, <1>2 DEF Closed
<1>8. \A c, a, b, x, y : ChunkCut(c, a, b, x, y)' <=> ChunkCut(c, a, b, x, y)
  <2> SUFFICES ASSUME NEW c, NEW a, NEW b, NEW x, NEW y
               PROVE  ChunkCut(c, a, b, x, y)' <=> ChunkCut(c, a, b, x, y)
    OBVIOUS
  <2>1. /\ SectionSpan(a, b)' <=> SectionSpan(a, b)
        /\ Closed(b)' <=> Closed(b)
        /\ (Count(a - 1) + PeelOf(a, b) <= x)' <=> (Count(a - 1) + PeelOf(a, b) <= x)
        /\ (y <= Count(b))' <=> (y <= Count(b))
        /\ (y - x <= max_tokens)' <=> (y - x <= max_tokens)
    BY <1>1, <1>2, <1>4, <1>6, <1>7
  <2>2. /\ Count(a - 1)' = Count(a - 1)
        /\ (Count(a - 1) + PeelOf(a, b))' = Count(a - 1) + PeelOf(a, b)
    BY <1>4, <1>6
  <2>3. (Part(Count(a - 1), Count(a - 1) + PeelOf(a, b)) \o Part(x, y))'
          = Part(Count(a - 1), Count(a - 1) + PeelOf(a, b)) \o Part(x, y)
    BY <1>3, <2>2 DEF Part
  <2>4. /\ (IF Titled(HeadOf(a)) THEN HeadOf(a) ELSE 0)' = IF Titled(HeadOf(a)) THEN HeadOf(a) ELSE 0
        /\ PathTold(c.path, HeadOf(a))' <=> PathTold(c.path, HeadOf(a))
    BY <1>2
  <2>5. /\ (c.content = Part(Count(a - 1), Count(a - 1) + PeelOf(a, b)) \o Part(x, y))'
             <=> (c.content = Part(Count(a - 1), Count(a - 1) + PeelOf(a, b)) \o Part(x, y))
        /\ (c.heading = IF Titled(HeadOf(a)) THEN HeadOf(a) ELSE 0)'
             <=> (c.heading = IF Titled(HeadOf(a)) THEN HeadOf(a) ELSE 0)
    <3>1. (c.content = Part(Count(a - 1), Count(a - 1) + PeelOf(a, b)) \o Part(x, y))'
             <=> (c.content = Part(Count(a - 1), Count(a - 1) + PeelOf(a, b)) \o Part(x, y))
      BY <2>3
    <3>2. (c.heading = IF Titled(HeadOf(a)) THEN HeadOf(a) ELSE 0)'
             <=> (c.heading = IF Titled(HeadOf(a)) THEN HeadOf(a) ELSE 0)
      BY <2>4
    <3>3. QED
      BY <3>1, <3>2
  <2> DEFINE Cut ==
               /\ SectionSpan(a, b) /\ Closed(b)
               /\ x \in Nat /\ y \in Nat
               /\ Count(a - 1) + PeelOf(a, b) <= x /\ x < y /\ y <= Count(b)
               /\ y - x <= max_tokens
               /\ c.content = Part(Count(a - 1), Count(a - 1) + PeelOf(a, b)) \o Part(x, y)
               /\ c.heading = IF Titled(HeadOf(a)) THEN HeadOf(a) ELSE 0
               /\ PathTold(c.path, HeadOf(a))
  <2>6. Cut' <=> Cut
    BY <2>1, <2>4, <2>5
  <2>7. ChunkCut(c, a, b, x, y) <=> Cut
    BY DEF ChunkCut
  <2>8. ChunkCut(c, a, b, x, y)' <=> Cut'
    BY DEF ChunkCut
  <2>9. QED
    BY <2>6, <2>7, <2>8
<1>9. \A c, n : Before(c, n)' <=> Before(c, n)
  BY <1>8 DEF Before
<1>10. \A c : HomeOf(c)' = HomeOf(c)
  BY <1>2 DEF HomeOf, HeadingOf
<1>11. \A c : BodyOf(c)' = BodyOf(c)
  BY <1>1, <1>2, <1>3, <1>10 DEF BodyOf
<1>12. \A d, c : Joined(d, c)' <=> Joined(d, c)
  BY <1>1, <1>10, <1>11 DEF Joined, Shared
<1>13. \A o, n : CoverOf(o, n)' <=> CoverOf(o, n)
  BY <1>3, <1>5 DEF CoverOf, FreshIn, SeenIn
<1>14. \A s : FromOf(s)' = FromOf(s)
  BY <1>1 DEF FromOf, Opens
<1>15. \A s, st : MarkOf(s, st)' = MarkOf(s, st)
  BY <1>1, <1>4, <1>6, <1>14 DEF MarkOf, Step, Closes
<1>16. \A s, st, o : LastCut(s, st, o)' <=> LastCut(s, st, o)
  BY <1>1, <1>4, <1>8, <1>14, <1>15 DEF LastCut, Step, Closes
<1>17. \A s, st, o : CutTold(s, st, o)' <=> CutTold(s, st, o)
  BY <1>1, <1>2, <1>9, <1>12, <1>13, <1>14, <1>15, <1>16 DEF CutTold, Closes
<1>18. QED
  BY <1>1, <1>17 DEF DocTyped, DocRead, from_utf8, OptionsTyped, Line

LEMMA ChunkerSteps == ChunkerInv /\ split_step => ChunkerInv'
<1> SUFFICES ASSUME ChunkerInv, split_step PROVE ChunkerInv'
  OBVIOUS
<1>1. UNCHANGED input
  BY DEF split_step, Fence, Heading, Prose, EndOfText, Blank, Whole, Window, Finish
<1>2. DocTyped /\ OptionsTyped /\ DocTyped' /\ DocRead' /\ OptionsTyped'
  BY <1>1, SameText DEF ChunkerInv
<1>3. \A s, st, o : CutTold(s, st, o)' <=> CutTold(s, st, o)
  BY <1>1, SameText
<1>4. doc' = doc
  BY <1>1 DEF input
<1>5. ASSUME Fence \/ Heading \/ Prose PROVE ChunkerInv'
  <2>1. pc = "walk" /\ pc' = "walk" /\ Walking
    BY <1>5 DEF Fence, Heading, Prose, Reads, ChunkerInv
  <2>2. Walking'
    BY <1>2, <1>5, <2>1, FenceKeeps, HeadingKeeps, ProseKeeps
  <2>3. QED
    BY <1>2, <2>1, <2>2 DEF ChunkerInv
<1>6. ASSUME EndOfText PROVE ChunkerInv'
  <2>1. Walking
    BY <1>6 DEF EndOfText, ChunkerInv
  <2>2. /\ CutTold(sections', start', out')
        /\ next' = Len(doc) + 1 /\ in_fence' \in BOOLEAN
        /\ stack' \in [1..3 -> 0..Len(doc)] /\ cur' = Untitled /\ pc' = "cut"
    BY <1>2, <1>6, <2>1, EndOfTextTold
  <2>3. CutTold(sections, start, out)'
    BY <1>3, <2>2
  <2>4. CutInv'
    BY <1>4, <2>2, <2>3 DEF CutInv, Untitled
  <2>5. QED
    BY <1>2, <2>2, <2>4 DEF ChunkerInv
<1>7. ASSUME Blank \/ Whole \/ Window PROVE ChunkerInv'
  <2>1. pc = "cut" /\ pc' = "cut" /\ UNCHANGED walk /\ CutInv
    BY <1>7 DEF Blank, Whole, Window, Cutting, ChunkerInv
  <2>2. CutTold(sections, start, out)
    BY <2>1 DEF CutInv
  <2>3. CutTold(sections', start', out')
    BY <1>2, <1>7, <2>2, BlankTold, WholeTold, WindowTold
  <2>4. CutTold(sections, start, out)'
    BY <1>3, <2>3
  <2>5. CutInv'
    BY <1>4, <2>1, <2>4 DEF CutInv, walk, Untitled
  <2>6. QED
    BY <1>2, <2>1, <2>5 DEF ChunkerInv
<1>8. ASSUME Finish PROVE ChunkerInv'
  <2>1. pc = "cut" /\ pc' = "done" /\ sections = <<>> /\ UNCHANGED <<walk, sections, start, out>> /\ CutInv
    BY <1>8 DEF Finish, ChunkerInv
  <2>2. CutTold(sections, start, out)'
    BY <1>3, <2>1 DEF CutInv
  <2>3. CutInv'
    BY <1>4, <2>1, <2>2 DEF CutInv, walk, Untitled
  <2>4. QED
    BY <1>2, <2>1, <2>3 DEF ChunkerInv
<1>9. QED
  BY <1>5, <1>6, <1>7, <1>8 DEF split_step

LEMMA ChunkerStays == ChunkerInv /\ UNCHANGED chunker => ChunkerInv'
<1> SUFFICES ASSUME ChunkerInv, UNCHANGED chunker PROVE ChunkerInv'
  OBVIOUS
<1>1. UNCHANGED input /\ UNCHANGED <<next, in_fence, stack, cur, sections, start, out, pc>>
  BY DEF chunker, walk
<1>2. DocTyped' /\ DocRead' /\ OptionsTyped' /\ doc' = doc
  BY <1>1, SameText DEF ChunkerInv, input
<1>3. \A s, st, o : CutTold(s, st, o)' <=> CutTold(s, st, o)
  BY <1>1, SameText
<1>4. /\ \A n : Fences(n)' = Fences(n)
      /\ \A s, n : TrailTold(s, n)' <=> TrailTold(s, n)
      /\ \A s : SectionTold(s)' <=> SectionTold(s)
      /\ \A s, a, b : Tiles(s, a, b)' <=> Tiles(s, a, b)
  BY <1>2, SameDocument
<1>5. pc = "walk" => Walking'
  <2> SUFFICES ASSUME Walking PROVE Walking'
    BY DEF ChunkerInv
  <2>1. \/ cur = Untitled /\ next = 1 /\ sections = <<>>
        \/ /\ SectionTold(cur) /\ Closes(cur) = next - 1
           /\ Tiles(sections, 1, Opens(cur) - 1)
    BY DEF Walking
  <2>2. \/ (cur = Untitled /\ next = 1 /\ sections = <<>>)'
        \/ (/\ SectionTold(cur) /\ Closes(cur) = next - 1
            /\ Tiles(sections, 1, Opens(cur) - 1))'
    BY <1>1, <1>4, <2>1 DEF Untitled, Closes, Opens
  <2>3. TrailTold(stack, next - 1)'
    BY <1>1, <1>4 DEF Walking
  <2>4. in_fence' \in BOOLEAN /\ (in_fence <=> Cardinality(Fences(next - 1)) % 2 = 1)'
    BY <1>1, <1>4 DEF Walking
  <2>5. QED
    BY <1>1, <1>2, <2>2, <2>3, <2>4 DEF Walking
<1>6. pc # "walk" => CutInv'
  <2> SUFFICES ASSUME CutInv PROVE CutInv'
    BY DEF ChunkerInv
  <2>1. CutTold(sections, start, out)'
    BY <1>1, <1>3 DEF CutInv
  <2>2. QED
    BY <1>1, <1>2, <2>1 DEF CutInv, Untitled
<1>7. QED
  BY <1>1, <1>2, <1>5, <1>6 DEF ChunkerInv

---------------------------------------------------------------------------
(* What it says of the chunks.                                             *)

LEMMA ChunkerIsTyped == ChunkerInv => TypeOK
<1> SUFFICES ASSUME ChunkerInv PROVE TypeOK
  OBVIOUS
<1>1. DocTyped /\ OptionsTyped /\ Len(doc) \in Nat
  BY LenProperties DEF ChunkerInv, DocTyped
<1>2. /\ next \in 1..Len(doc) + 1 /\ in_fence \in BOOLEAN /\ stack \in [1..3 -> 0..Len(doc)]
      /\ pc # "walk" => cur = Untitled
  BY <1>1 DEF ChunkerInv, CutInv, Walking
<1>3. Len(AllWords) \in Nat
  BY <1>1, WordsTyped
<1>4. Len(out) <= Len(AllWords)
  <2>1. CASE pc = "walk"
    <3>1. Len(out) = 0
      BY <2>1, EmptySeq DEF ChunkerInv, Walking
    <3>2. QED
      BY <1>3, <3>1
  <2>2. CASE pc # "walk"
    <3>1. CoverOf(out, MarkOf(sections, start))
      BY <2>2 DEF ChunkerInv, CutInv, CutTold
    <3>2. /\ MarkOf(sections, start) \in 0..Len(AllWords) /\ Len(out) <= MarkOf(sections, start)
          /\ Len(out) \in Nat
      BY <3>1, LenProperties DEF CoverOf
    <3>3. QED
      BY <1>3, <3>2
  <2>3. QED
    BY <2>1, <2>2
<1>5. start > 0 => Cutting /\ start < Len(Rest)
  <2> SUFFICES ASSUME start > 0 PROVE Cutting /\ start < Len(Rest)
    OBVIOUS
  <2>1. pc # "walk" /\ start # 0
    BY DEF ChunkerInv, Walking
  <2>2. CutTold(sections, start, out) /\ sections # <<>>
    BY <2>1 DEF ChunkerInv, CutInv, CutTold, LastCut
  <2>3. Cutting
    BY <2>1, <2>2 DEF Cutting, ChunkerInv
  <2>4. PICK a, b : a = Opens(Section) /\ b = Closes(Section)
    OBVIOUS
  <2>5. SectionTold(Section)
    BY <1>1, <2>2, SectionHead
  <2>6. Len(Rest) = Count(b) - (Count(a - 1) + PeelOf(a, b))
    BY <1>1, <2>4, <2>5, SectionCut
  <2>7. /\ start \in Nat /\ Count(a - 1) \in Nat /\ Count(b) \in Nat /\ PeelOf(a, b) \in Nat
        /\ Count(a - 1) + PeelOf(a, b) + start < Count(b)
    BY <1>1, <2>1, <2>2, <2>4, StartIs
  <2>8. start < Len(Rest)
    BY <2>6, <2>7
  <2>9. QED
    BY <2>3, <2>8
<1>6. pc \in {"walk", "cut", "done"} /\ max_tokens \in Nat \ {0} /\ overlap \in Nat
  BY DEF ChunkerInv, OptionsTyped
<1>7. QED
  BY <1>2, <1>4, <1>5, <1>6 DEF TypeOK

\* In the end.
LEMMA ChunksInTheEnd ==
    ASSUME ChunkerInv, pc = "done"
    PROVE  /\ DocTyped /\ OptionsTyped /\ out \in Seq(ChunkType) /\ Len(out) \in Nat
           /\ DOMAIN out = 1..Len(out)
           /\ CoverOf(out, Len(AllWords))
           /\ \A k \in 1..Len(out) : \E a, b, x, y : ChunkCut(out[k], a, b, x, y)
           /\ \A k \in 2..Len(out) : Joined(out[k - 1], out[k])
<1>1. DocTyped /\ OptionsTyped /\ sections = <<>> /\ CutTold(sections, start, out)
  BY DEF ChunkerInv, CutInv
<1>2. start = 0
  BY <1>1 DEF CutTold, LastCut
<1>3. Len(doc) \in Nat /\ (Len(doc) + 1) - 1 = Len(doc)
  BY <1>1, LenProperties DEF DocTyped
<1>4. Count(Len(doc)) = Len(AllWords) /\ Len(AllWords) \in Nat
  BY <1>1, WordsTyped
<1>5. MarkOf(sections, start) = Len(AllWords)
  BY <1>1, <1>2, <1>3, <1>4 DEF MarkOf, FromOf
<1>6. CoverOf(out, Len(AllWords))
  BY <1>1, <1>5 DEF CutTold
<1>7. out \in Seq(ChunkType) /\ Len(out) \in Nat /\ DOMAIN out = 1..Len(out)
  BY <1>6, LenProperties DEF CoverOf
<1>8. \A k \in 1..Len(out) : \E a, b, x, y : ChunkCut(out[k], a, b, x, y)
  BY <1>1 DEF CutTold, Before
<1>9. \A k \in 2..Len(out) : Joined(out[k - 1], out[k])
  BY <1>1 DEF CutTold
<1>10. QED
  BY <1>1, <1>6, <1>7, <1>8, <1>9

LEMMA NothingLeftOut == ChunkerInv => NothingIsLost
<1> SUFFICES ASSUME ChunkerInv, pc = "done"
             PROVE  /\ markdown.utf8 =>
                         FlattenSeq([k \in DOMAIN out |-> Fresh(k)]) = WordsOf(markdown.lines)
                    /\ ~markdown.utf8 => out = <<>>
                    /\ \A k \in DOMAIN out : Fresh(k) # <<>>
  BY DEF NothingIsLost
<1>1. DocTyped /\ CoverOf(out, Len(AllWords)) /\ DOMAIN out = 1..Len(out)
  BY ChunksInTheEnd
<1>2. \A k : Fresh(k) = FreshIn(out, k)
  BY DEF Fresh, FreshIn, SeenIn
<1>3. /\ \A k \in 1..Len(out) : FreshIn(out, k) # <<>>
      /\ FlattenSeq([k \in 1..Len(out) |-> FreshIn(out, k)]) = Part(0, Len(AllWords))
  BY <1>1 DEF CoverOf
<1>4. Part(0, Len(AllWords)) = AllWords
  <2>1. AllWords \in Seq(Word) /\ 0 + 1 = 1
    BY <1>1, WordsTyped
  <2>2. QED
    BY <2>1, SubSeqFull DEF Part
<1>5. [k \in DOMAIN out |-> Fresh(k)] = [k \in 1..Len(out) |-> FreshIn(out, k)]
  BY <1>1, <1>2
<1>6. ASSUME markdown.utf8 PROVE WordsOf(markdown.lines) = AllWords
  <2>1. doc = markdown.lines
    BY <1>6 DEF ChunkerInv, DocRead, from_utf8
  <2>2. QED
    BY <2>1 DEF WordsOf, AllWords, Words
<1>7. ASSUME ~markdown.utf8 PROVE out = <<>>
  <2>1. doc = <<>>
    BY <1>7 DEF ChunkerInv, DocRead, from_utf8
  <2>2. \A p \in 1..Len(AllWords) : FALSE
    BY <1>1, <2>1, PlaceOfWord, EmptySeq
  <2>3. Len(AllWords) \in Nat
    BY <1>1, WordsTyped
  <2>4. Len(AllWords) = 0
    BY <2>2, <2>3
  <2>5. /\ Len(out) \in Nat /\ Len(out) <= Len(AllWords) /\ out \in Seq(ChunkType)
    BY <1>1, <2>3, LenProperties DEF CoverOf
  <2>6. Len(out) = 0
    BY <2>4, <2>5
  <2>7. QED
    BY <2>5, <2>6, EmptySeq
<1>8. QED
  BY <1>1, <1>2, <1>3, <1>4, <1>5, <1>6, <1>7

LEMMA WindowsJoined == ChunkerInv => WindowsOverlap
<1> SUFFICES ASSUME ChunkerInv, pc = "done", NEW k \in DOMAIN out
             PROVE  /\ Len(Body(k)) <= max_tokens
                    /\ k > 1 /\ Home(k) = Home(k - 1) =>
                         /\ Len(Body(k - 1)) = max_tokens /\ Len(Body(k)) > Shared
                         /\ SubSeq(Body(k), 1, Shared)
                              = SubSeq(Body(k - 1), max_tokens - Shared + 1, max_tokens)
  BY DEF WindowsOverlap, Shared
<1>1. /\ DocTyped /\ OptionsTyped /\ Len(out) \in Nat /\ k \in 1..Len(out)
      /\ \A i \in 1..Len(out) : \E a, b, x, y : ChunkCut(out[i], a, b, x, y)
      /\ \A i \in 2..Len(out) : Joined(out[i - 1], out[i])
  BY ChunksInTheEnd
<1>2. \A i : Home(i) = HomeOf(out[i]) /\ Body(i) = BodyOf(out[i])
  BY DEF Home, HomeOf, Body, BodyOf
<1>3. Len(Body(k)) <= max_tokens
  <2>1. PICK a, b, x, y : ChunkCut(out[k], a, b, x, y)
    BY <1>1
  <2>2. BodyOf(out[k]) = Part(x, y)
    BY <1>1, <2>1, BodyIs
  <2>3. /\ SectionSpan(a, b) /\ x \in Nat /\ y \in Nat /\ x < y /\ y <= Count(b)
        /\ y - x <= max_tokens
    BY <2>1 DEF ChunkCut
  <2>4. Count(b) \in Nat /\ Count(b) <= Len(AllWords) /\ Len(AllWords) \in Nat
    BY <1>1, <2>3, SpanCounted
  <2>5. y \in x..Len(AllWords)
    BY <2>3, <2>4
  <2>6. Len(Part(x, y)) = y - x
    BY <1>1, <2>3, <2>5, PartIs
  <2>7. QED
    BY <1>2, <2>2, <2>3, <2>6
<1>4. ASSUME k > 1, Home(k) = Home(k - 1)
      PROVE  /\ Len(Body(k - 1)) = max_tokens /\ Len(Body(k)) > Shared
             /\ SubSeq(Body(k), 1, Shared)
                  = SubSeq(Body(k - 1), max_tokens - Shared + 1, max_tokens)
  <2>1. k \in 2..Len(out)
    BY <1>1, <1>4
  <2>2. Joined(out[k - 1], out[k])
    BY <1>1, <2>1
  <2>3. QED
    BY <1>2, <1>4, <2>2 DEF Joined
<1>5. QED
  BY <1>3, <1>4

LEMMA ChunksOfSections == ChunkerInv => ChunksAreSelfIdentifying
<1> SUFFICES ASSUME ChunkerInv, pc = "done", NEW k \in DOMAIN out
             PROVE  LET c == out[k].content
                        path == out[k].path
                        h == Home(k)
                        below == \E w \in ToSet(AllWords) : HeadingOf(w[1]) = h /\ w[1] > h
                    IN /\ \A j \in DOMAIN c : HeadingOf(c[j][1]) = h
                       /\ out[k].heading = IF Titled(h) THEN h ELSE 0
                       /\ Titled(h) /\ below => IsPrefix(Words(h), c)
                       /\ ToSet(path) = Ancestors(h)
                       /\ \A i \in 2..Len(path) : path[i - 1] < path[i]
  BY DEF ChunksAreSelfIdentifying
<1> DEFINE o == out[k]
           h == Home(k)
<1>1. DocTyped /\ k \in 1..Len(out) /\ \E a, b, x, y : ChunkCut(o, a, b, x, y)
  BY ChunksInTheEnd
<1>2. PICK a, b, x, y : ChunkCut(o, a, b, x, y)
  BY <1>1
<1>3. h = HomeOf(o)
  BY DEF Home, HomeOf
<1> HIDE DEF o, h
<1>4. /\ \A j \in 1..Len(o.content) : HeadingOf(o.content[j][1]) = HeadOf(a)
      /\ HomeOf(o) = HeadOf(a)
      /\ PeelOf(a, b) # 0 => IsPrefix(Words(a), o.content)
  BY <1>1, <1>2, BodyIs
<1>5. DOMAIN o.content = 1..Len(o.content)
  BY <1>1, <1>2, ChunkWords, LenProperties
<1>6. /\ SectionSpan(a, b) /\ Closed(b) /\ o.heading = (IF Titled(h) THEN h ELSE 0)
      /\ PathTold(o.path, h)
  BY <1>2, <1>3, <1>4 DEF ChunkCut
<1>7. ASSUME Titled(h), NEW w \in ToSet(AllWords), HeadingOf(w[1]) = h, w[1] > h
      PROVE  IsPrefix(Words(h), o.content)
  <2>1. h = a /\ HeadOf(a) = a
    BY <1>3, <1>4, <1>7 DEF Titled, HeadOf
  <2>2. /\ a \in 1..Len(doc) /\ a \in Nat \ {0} /\ b \in a..Len(doc) /\ Len(doc) \in Nat
        /\ Count(a) \in Nat /\ Count(b) \in Nat /\ doc[a].words \in Nat
    BY <1>1, <1>6, SpanCounted
  <2>3. AllWords \in Seq(Word)
    BY <1>1, WordsTyped
  <2>4. PICK q \in 1..Len(AllWords) : w = AllWords[q]
    BY <2>3, LenProperties DEF ToSet
  <2>5. PICK n \in 1..Len(doc) : \E j \in 1..doc[n].words : q = Count(n - 1) + j /\ AllWords[q] = <<n, j>>
    BY <1>1, PlaceOfWord
  <2>6. w[1] = n /\ n \in Nat /\ doc[n].words \in Nat /\ doc[n].words # 0
    BY <1>1, <2>4, <2>5, LineTyped
  <2>7. n <= b
    <3>1. CASE b = Len(doc)
      BY <2>2, <3>1
    <3>2. CASE b + 1 \in Boundaries
      <4>1. b + 1 <= n => b + 1 <= HeadingOf(n)
        BY <1>1, <3>2, HeadingIs
      <4>2. HeadingOf(n) = a
        BY <1>7, <2>1, <2>6
      <4>3. QED
        BY <2>2, <2>6, <4>1, <4>2
    <3>3. QED
      BY <1>6, <3>1, <3>2 DEF Closed
  <2>8. Count(a) < Count(b)
    <3>1. n > a
      BY <1>7, <2>1, <2>6
    <3>2. /\ a \in 0..Len(doc) /\ n - 1 \in a..Len(doc) /\ n - 1 \in 0..Len(doc)
          /\ n \in 0..Len(doc) /\ b \in n..Len(doc)
      BY <2>2, <2>6, <2>7, <3>1
    <3>3. Count(a) <= Count(n - 1) /\ Count(n) <= Count(b) /\ Count(n - 1) \in Nat
      BY <1>1, <3>2, CountGrows
    <3>4. Count(n) = Count(n - 1) + doc[n].words
      BY <1>1, LineIsPart
    <3>5. QED
      BY <2>2, <2>6, <3>3, <3>4
  <2>9. PeelOf(a, b) = doc[a].words
    <3>1. Count(b) # Count(a)
      BY <2>2, <2>8
    <3>2. QED
      BY <1>7, <2>1, <3>1 DEF PeelOf
  <2>10. PeelOf(a, b) # 0
    BY <1>7, <2>1, <2>2, <2>9 DEF Titled
  <2>11. QED
    BY <1>4, <2>1, <2>10
<1>8. \A j \in DOMAIN o.content : HeadingOf(o.content[j][1]) = h
  BY <1>3, <1>4, <1>5
<1>9. ToSet(o.path) = Ancestors(h) /\ \A i \in 2..Len(o.path) : o.path[i - 1] < o.path[i]
  BY <1>6 DEF PathTold
<1>10. QED
  BY <1>6, <1>7, <1>8, <1>9 DEF o, h

---------------------------------------------------------------------------
(* The chunker runs within FileIndex.                                      *)

LEMMA ChunkerStarts == FileInit => ChunkerInv
<1> SUFFICES ASSUME FileInit PROVE ChunkerInv
  OBVIOUS
<1>1. DocTyped /\ DocRead /\ OptionsTyped /\ pc = "walk" /\ Walking
  <2>1. CASE split_with(Documents, MaxTokens, Overlaps)
    BY <2>1, DocumentsTyped, SplitStarts
  <2>2. CASE split_with({EmptyNote}, {0}, {0})
    BY <2>2, DocumentsTyped, SplitStarts
  <2>3. QED
    BY <2>1, <2>2 DEF FileInit
<1>2. QED
  BY <1>1 DEF ChunkerInv

LEMMA ChunkerKeeps == ChunkerInv /\ [FileNext]_fileVars => ChunkerInv'
<1>1. Splitting => split_step
  BY DEF Splitting
<1>2. SplitDone \/ Refuse \/ Unchanged \/ Prepare \/ Embed \/ Replace \/ Restart => UNCHANGED chunker
  BY DEF SplitDone, Refuse, Unchanged, Prepare, Embed, Replace, Restart
<1>3. UNCHANGED fileVars => UNCHANGED chunker
  BY DEF fileVars
<1>4. QED
  BY <1>1, <1>2, <1>3, ChunkerSteps, ChunkerStays DEF FileNext

\* The lines read are in sections that tile them, each with the trail of its
\* heading, and the chunks cut have the first words of the text.
THEOREM SectionsTileTheText == FileSpec => []ChunkerInv
  BY ChunkerStarts, ChunkerKeeps, PTL DEF FileSpec

\* A window starts before the end of its section, and there are never more
\* chunks than words: split_with comes to an end for every pair of options.
THEOREM WindowsAreBounded == FileSpec => []TypeOK
  BY SectionsTileTheText, ChunkerIsTyped, PTL

\* Of a note of valid UTF-8, what each chunk adds is, put together, the text as
\* it was written, and each adds some; any other note has no chunk.
THEOREM NoWordIsLost == FileSpec => []NothingIsLost
  BY SectionsTileTheText, NothingLeftOut, PTL

\* Windows of a section share the words of the overlap, and all but its last
\* are full.
THEOREM WindowsShareWords == FileSpec => []WindowsOverlap
  BY SectionsTileTheText, WindowsJoined, PTL

\* Every chunk has words of one section, with its heading and its trail.
THEOREM ChunksTellTheirHeadings == FileSpec => []ChunksAreSelfIdentifying
  BY SectionsTileTheText, ChunksOfSections, PTL

=============================================================================
