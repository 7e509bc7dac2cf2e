---------------------------- MODULE MediaPrepare ----------------------------
(***************************************************************************)
(* prepare_media (src/media_prepare.rs): the bytes of an image or a PDF    *)
(* become what an embedding provider accepts, one input per chunk, and the *)
(* tag a hit of that chunk is shown with (src/cli/output.rs).              *)
(*                                                                         *)
(* Bytes stand as what the decoders find in them.  An image has a format,  *)
(* a size, and whether its (first) frame decodes; a GIF or WebP also       *)
(* whether it is animated.  A PDF has its pages, each named by what is on  *)
(* it, and the page that cannot be extracted or rendered, 0 for none.  An  *)
(* encoding is a record of what it was made of.                            *)
(***************************************************************************)
EXTENDS Naturals, Sequences, SequencesExt

CONSTANT MAX_IMAGE_PIXELS   \* 16 000 000 in the code

ASSUME MediaAssumption == MAX_IMAGE_PIXELS \in Nat \ {0}

Ok(v) == [ok |-> TRUE, value |-> v]
Err(e) == [ok |-> FALSE, error |-> e]

\* Collecting an iterator of results: the first failure is the result.
Collected(results) ==
    LET Failed == {i \in DOMAIN results : ~results[i].ok}
    IN IF Failed = {} THEN Ok([i \in DOMAIN results |-> results[i].value])
       ELSE results[CHOOSE i \in Failed : \A j \in Failed : i <= j]

----------------------------------------------------------------------------
\* Images

\* The largest whole r with r <= x * sqrt(cap / (x * y)), at least 1.
Shrunk(x, y, cap) ==
    LET Fits == {r \in 1..x : r * r * y <= cap * x}
    IN IF Fits = {} THEN 1 ELSE CHOOSE r \in Fits : \A q \in Fits : q <= r

\* Mutant: an image of any size goes out.
limit_nothing(size, cap) == size

limit_pixels(size, cap) ==
    IF size[1] * size[2] <= cap THEN size
    ELSE <<Shrunk(size[1], size[2], cap), Shrunk(size[2], size[1], cap)>>

mime_for_image(format) ==
    CASE format = "png" -> "image/png" [] format = "jpeg" -> "image/jpeg"
      [] format = "gif" -> "image/gif" [] format = "webp" -> "image/webp"
      [] OTHER -> "application/octet-stream"

\* The part of bytes that are handed on as they are, and of a picture encoded.
Original(bytes, mime) == [mime_type |-> mime, bytes |-> bytes]
encode_png(picture, size) ==
    [mime_type |-> "image/png", bytes |-> [format |-> "png", decodes |-> TRUE, animated |-> FALSE,
                                            picture |-> picture, size |-> size]]

\* Built without a decoder for any format but these.
Decodable == {"png", "jpeg", "gif", "webp"}

\* A GIF, if something comes after its first frame, whether that decodes or not;
\* a WebP, if its header says so.  No other format is looked at for it.
Animated(bytes) == bytes.format \in {"gif", "webp"} /\ bytes.animated

prepare_image(bytes, options) ==
    LET size == limit_pixels(bytes.size, options.max_image_pixels)
        must_encode_png == bytes.format \in {"gif", "webp"} \/ size # bytes.size
    IN CASE bytes.format = "unknown" -> Err("Unsupported")
         [] bytes.format \notin Decodable \/ ~bytes.decodes -> Err("ImageDecode")
         [] OTHER ->
              LET part == IF must_encode_png THEN encode_png(bytes.picture, size)
                          ELSE Original(bytes, mime_for_image(bytes.format))
              IN Ok(<<[media_type |-> "image", parts |-> <<part>>, pages |-> <<>>,
                       mime_type |-> part.mime_type, truncated |-> Animated(bytes)]>>)

----------------------------------------------------------------------------
\* PDFs

\* Zero-based and end-exclusive.
page_ranges(page_count, pages_per_chunk) ==
    [i \in 1..(page_count + pages_per_chunk - 1) \div pages_per_chunk |->
        <<(i - 1) * pages_per_chunk,
          IF i * pages_per_chunk < page_count THEN i * pages_per_chunk ELSE page_count>>]

\* The most pages a provider takes in one native input.
NATIVE_PAGES == 6

PdfChunk(range, parts) ==
    [media_type |-> "pdf", parts |-> parts, pages |-> range,
     mime_type |-> "application/pdf", truncated |-> FALSE]

\* extract_pages_to_bytes, by what it returns.
Extract(bytes, range) ==
    [bytes EXCEPT !.pages = SubSeq(@, range[1] + 1, range[2]), !.bad = 0]

\* A document of one range goes out as it is, of several one extract each.
prepare_native_pdf(bytes, options) ==
    LET count == Len(bytes.pages)
        ranges == page_ranges(count, options.pdf_pages_per_chunk)
        Chunk(range) ==
            IF range[2] - range[1] > NATIVE_PAGES THEN Err("PdfChunkTooLarge")
            ELSE IF Len(ranges) = 1
                 THEN Ok(PdfChunk(range, <<Original(bytes, "application/pdf")>>))
            ELSE IF bytes.bad \in range[1] + 1..range[2] THEN Err("PdfExtract")
            ELSE Ok(PdfChunk(range, <<Original(Extract(bytes, range), "application/pdf")>>))
    IN IF ~bytes.parses THEN Err("PdfParse")
       ELSE IF count = 0 THEN Err("EmptyPdf")
       ELSE Collected([i \in DOMAIN ranges |-> Chunk(ranges[i])])

\* A page of the model is a square of pdf_dpi pixels before it is limited.
Rendered(bytes, page, options) ==
    encode_png(bytes.pages[page],
               limit_pixels(<<options.pdf_dpi, options.pdf_dpi>>, options.max_image_pixels))

prepare_raster_pdf(bytes, options) ==
    LET count == Len(bytes.pages)
        ranges == page_ranges(count, options.pdf_pages_per_chunk)
        Chunk(range) ==
            IF bytes.bad \in range[1] + 1..range[2] THEN Err("PdfRender")
            ELSE Ok(PdfChunk(range, [i \in 1..range[2] - range[1] |->
                                        Rendered(bytes, range[1] + i, options)]))
    IN IF ~bytes.parses THEN Err("PdfParse")
       ELSE IF count = 0 THEN Err("EmptyPdf")
       ELSE Collected([i \in DOMAIN ranges |-> Chunk(ranges[i])])

prepare_pdf(bytes, model, options) ==
    CASE model.pdf_mode = "none"   -> Err("PdfUnsupported")
      [] model.pdf_mode = "native" -> prepare_native_pdf(bytes, options)
      [] model.pdf_mode = "raster" -> prepare_raster_pdf(bytes, options)

----------------------------------------------------------------------------
is_pdf(bytes) == bytes.format = "pdf"

validate_options(options) ==
    /\ options.pdf_pages_per_chunk # 0
    /\ options.pdf_dpi # 0
    /\ options.max_image_pixels # 0

\* By the bytes and not by the name: a PDF named .png is prepared as a PDF.
prepare_media(bytes, model, options) ==
    IF ~validate_options(options) THEN Err("InvalidOption")
    ELSE IF ~model.media_capable THEN Err("MediaUnsupported")
    ELSE IF is_pdf(bytes) THEN prepare_pdf(bytes, model, options)
    ELSE prepare_image(bytes, options)

\* cache_key_for_input: a hash of the type and the parts, each with its length.
cache_key_for_input(chunk) == <<chunk.media_type, chunk.parts>>

----------------------------------------------------------------------------
\* The tag of a hit

\* The pages shown, counted from 1 and both included; none for an unusable range.
pdf_page_range(pages) ==
    IF pages = <<>> \/ pages[2] <= pages[1] THEN <<>> ELSE <<pages[1] + 1, pages[2]>>

media_tag(chunk) ==
    [type |-> chunk.media_type,
     pages |-> IF chunk.media_type = "pdf" THEN pdf_page_range(chunk.pages) ELSE <<>>,
     truncated |-> chunk.truncated]

=============================================================================
