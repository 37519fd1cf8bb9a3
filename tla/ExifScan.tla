------------------------------- MODULE ExifScan -------------------------------
(***************************************************************************)
(* scan_exif: JPEG and Photoshop files and TIFF headers in a page, the     *)
(* entries of their image file directories, and the JPEGs that are carved. *)
(* A cell is [is |-> "marker", m, size], a JPEG marker with its block; the *)
(* header of a Photoshop file, "8BPS", or one of its resources; the header *)
(* of a TIFF structure; or, of that structure, an "IFD", one of its        *)
(* "entry"s, the pointer to the "next" IFD, a "value" or a "blank" one.    *)
(***************************************************************************)
EXTENDS SbufWalk, SequencesExt

CONSTANTS
  MIN_JPEG_SIZE,         \* 200 bytes
  min_jpeg_size,         \* 1000 bytes
  MAYBE_MAX_ENTRIES,     \* 200
  OPT_MAX_IFD_ENTRIES,   \* 1000
  OPT_MAX_EXIF_BYTES,    \* 64 KiB
  DATA_OFFSET_WRAP       \* 2^16 bytes

ASSUME ExifAssumption ==
  /\ MIN_JPEG_SIZE \in Nat /\ min_jpeg_size \in Nat /\ MAYBE_MAX_ENTRIES \in Nat
  /\ OPT_MAX_IFD_ENTRIES \in Nat /\ OPT_MAX_EXIF_BYTES \in Nat /\ DATA_OFFSET_WRAP \in Nat \ {0}

VARIABLE entries         \* read and not yet recorded, [ifd, dir, name, at]: at is -1 if the value is empty

NoPicture == [is |-> "other"]

\* In the cells are numbers where the code reads numbers: those of a JPEG and of a
\* resource are not 0, for they count their header.
PictureCell(c) ==
  /\ c.is \in {"marker", "resource"} => c.size \in Nat \ {0}
  /\ c.is \in {"IFD", "8BPS"} => c.n \in Nat
  /\ c.is = "TIFF" => c.ifd0 \in Nat
  /\ c.is = "next" => c.ifd \in Nat
  /\ c.is = "entry" => c.bytes \in Nat /\ c.offset \in Nat

HasKind(k, is) == Cell(k, NoPicture).is = is

-----------------------------------------------------------------------------
(* exif_entry.cpp: the tags that are known, by the kind of directory *)

TiffTags ==
  {"ImageWidth", "BitsPerSample", "Compression", "PhotometricInterpreation", "ImageDescription", "Make", "Model",
   "StripOffsets", "Orientation", "SamplesPerPixel", "RowsPerStrip", "StripByteCounts", "XResolution", "YResolution",
   "PlanarConfiguration", "ResolutionUnit", "TransferFunction", "Software", "DateTime", "Artist", "WhitePoint",
   "PrimaryChromaticities", "JPEGInterchangeFormat", "JPEGInterchangeFormatLength", "YCbCrCoefficients",
   "YCbCrSubSampling", "YCbCrPositioning", "ReferenceBlackWhite", ""}
ExposureTags ==
  {"ExposureTime", "FNumber", "ExposureProgram", "SpectralSensitivity", "PhotographicSensitivity", "OECF",
   "SensitivityType", "StandardOutputSensitivity", "RecommendedExposureIndex", "ISOSpeed", "ISOSpeedLatitudeyyy",
   "IOSpeedLatitudezzz", "ExifVersion", "DateTimeOriginal", "DateTimeDigitized", "ComponentsConfiguration",
   "CompressedBitsPerPixel", "ShutterSpeedValue", "ApertureValue", "BrightnessValue", "ExposureBiasValue",
   "MaxApertureValue", "SubjectDistance", "MeteringMode", "LightSource", "Flash", "FocalLength", "SubjectArea"}
DeviceTags ==
  {"UserComment", "SubSecTime", "SubSecTimeOriginal", "SubSecTimeDigitized", "FlashpixVersion", "ColorSpace",
   "PixelXDimension", "PixelYDimension", "RelatedSoundFile", "FlashEnergy", "SpatialFrequencyResponse",
   "FocalPlaneXResolution", "FocalPlaneYResolution", "FocalPlaneResolutionUnit", "SubjectLocation", "ExposureIndex",
   "SensingMethod", "FileSource", "SceneType", "CFAPattern"}
SceneTags ==
  {"CustomRendered", "ExposureMode", "WhiteBalance", "DigitalZoomRatio", "FocalLengthIn35mmFilm", "SceneCaptureType",
   "GainControl", "Contrast", "Saturation", "Sharpness", "DeviceSettingDescription", "SubjectDistanceRange",
   "ImageUniqueID", "CameraOwnerName", "BodySerialNumber", "LensSpecification", "LensMake", "LensModel",
   "LensSerialNumber", "Gamma"}
GpsTags ==
  {"GPSVersionID", "GPSLatitudeRef", "GPSLatitude", "GPSLongitudeRef", "GPSLongitude", "GPSAltitudeRef", "GPSAltitude",
   "GPSTimeStamp", "GPSSatellites", "GPSStatus", "GPSMeasureMode", "GPSDOP", "GPSSpeedRef", "GPSSpeed", "GPSTrackRef",
   "GPSTrack", "GPSImgDirectionRef", "GPSImgDirection", "GPSMapDatum", "GPSDestLatitudeRef", "GPSDestLatitude",
   "GPSDestLongitudeRef", "GPSDestLongitude", "GPSDestBearingRef", "GPSDestBearing"}
GpsProcessTags ==
  {"GPSDestDistanceRef", "GPSDestDistance", "GPSProcessingMethod", "GPSAreaInformation", "GPSDateStamp",
   "GPSDifferential", "GPSHPositioningError"}
InteropTags == {"InteroperabilityIndex"}
Known == [tiff |-> TiffTags, exif |-> ExposureTags \cup DeviceTags \cup SceneTags, gps |-> GpsTags \cup GpsProcessTags,
          interoperability |-> InteropTags, none |-> {}]

-----------------------------------------------------------------------------
(* The directories of a TIFF structure that begins at t: [is |-> "TIFF", ifd0], then at *)
(* its offsets [is |-> "IFD", n], n entries [is |-> "entry", tag, type, bytes, offset,   *)
(* big], and [is |-> "next", ifd]; type is 0 if it is none, 6 if its width is not known. *)

NoEntry == [is |-> "entry", tag |-> "unknown", type |-> 0, bytes |-> 0, offset |-> 0, big |-> FALSE]
EntryAt(t, k) == IF HasKind(t + k, "entry") THEN Cell(t + k, NoPicture) ELSE NoEntry
get_num_entries(t, ifd_offset) == IF HasKind(t + ifd_offset, "IFD") THEN Cell(t + ifd_offset, NoPicture).n ELSE 0
get_first_ifd_offset(t) == Cell(t, NoPicture).ifd0
get_next_ifd_offset(t, ifd_offset) ==
  LET k == t + ifd_offset + get_num_entries(t, ifd_offset) + 1 IN IF HasKind(k, "next") THEN Cell(k, NoPicture).ifd ELSE 0

is_maybe_valid_tiff(t) ==
  /\ HasKind(t, "TIFF") /\ get_first_ifd_offset(t) # 0
  /\ get_num_entries(t, get_first_ifd_offset(t)) \in 1 .. MAYBE_MAX_ENTRIES
  /\ t + get_first_ifd_offset(t) + 1 < bufsize
  /\ EntryAt(t, get_first_ifd_offset(t) + 1).type \in 1 .. 12

\* Where the value is; the function returns 16 bits.
get_data_offset(t, k) ==
  LET e == EntryAt(t, k) IN
  (IF e.type \notin {1, 2, 3, 4, 5, 7, 9, 10} THEN 0 ELSE IF e.bytes <= 4 THEN k ELSE e.offset) % DATA_OFFSET_WRAP

\* The value is empty if all its characters are alike, or it is not in the sbuf.
ValueAt(t, k) == LET p == t + get_data_offset(t, k) IN IF p >= bufsize \/ HasKind(p, "blank") THEN -1 ELSE p

\* The entries [ifd, dir, k] of a directory in the order they are come to, each followed
\* by those of the directory it forwards to.
TooMany == [ifd |-> "ifd0", dir |-> "none", k |-> 0]
parse_ifd_entries(ifd, dir, t, ifd_offset, forwarded) ==
  LET num_entries == get_num_entries(t, ifd_offset) IN
  IF num_entries > OPT_MAX_IFD_ENTRIES THEN <<TooMany>>
  ELSE FlattenSeq([i \in 1 .. num_entries |-> <<[ifd |-> ifd, dir |-> dir, k |-> ifd_offset + i]>> \o forwarded[i]])

Index == 1 .. OPT_MAX_IFD_ENTRIES
Leaf == [i \in Index |-> <<>>]
ExifForward(ifd, t, k) ==
  LET e == EntryAt(t, k) IN
  IF e.tag = "Interoperability" THEN parse_ifd_entries(ifd, "interoperability", t, e.offset, Leaf) ELSE <<>>
TiffForward(ifd, t, k) ==
  LET e == EntryAt(t, k) IN
  CASE e.tag = "ExifIFD" -> parse_ifd_entries(ifd, "exif", t, e.offset, [i \in Index |-> ExifForward(ifd, t, e.offset + i)])
    [] e.tag = "GPSInfoIFD" -> parse_ifd_entries(ifd, "gps", t, e.offset, Leaf)
    [] OTHER -> <<>>
TiffDirectory(ifd, t, ifd_offset) ==
  parse_ifd_entries(ifd, "tiff", t, ifd_offset, [i \in Index |-> TiffForward(ifd, t, ifd_offset + i)])

\* An entry whose tag is not known is passed over; the bytes of the others are counted.
Kept(t, v) == EntryAt(t, v.k).tag \in Known[v.dir]
bytes_read(t, visits, i) ==
  FoldLeft(LAMBDA sum, v : sum + (IF Kept(t, v) THEN EntryAt(t, v.k).bytes ELSE 0), 0, SubSeq(visits, 1, i))
\* The count-overflow abort of the functions that print a value.
Overflows(t, visits, i) == bytes_read(t, visits, i) >= OPT_MAX_EXIF_BYTES
EndsReading(t, visits, i) ==
  LET v == visits[i] IN
  \/ v = TooMany \/ t + v.k >= bufsize
  \/ /\ Kept(t, v)
     /\ \/ Overflows(t, visits, i)
        \/ EntryAt(t, v.k).big /\ EntryAt(t, v.k).tag \in {"PixelXDimension", "PixelYDimension"}

\* The entries of the first directory and of the next.
Visits(t) ==
  LET ifd0 == get_first_ifd_offset(t)
      ifd1 == get_next_ifd_offset(t, ifd0)
  IN  TiffDirectory("ifd0", t, ifd0) \o IF ifd1 = 0 THEN <<>> ELSE TiffDirectory("ifd1", t, ifd1)

\* An exception ends the reading; what was read before it is kept.
EntryOf(t, v) == [ifd |-> v.ifd, dir |-> v.dir, name |-> EntryAt(t, v.k).tag, at |-> ValueAt(t, v.k)]
Read(t, visits) ==
  LET ended == {i \in DOMAIN visits : EndsReading(t, visits, i)}
      read == IF ended = {} THEN visits ELSE SubSeq(visits, 1, Min(ended) - 1)
  IN  FlattenSeq([i \in DOMAIN read |-> IF Kept(t, read[i]) THEN <<EntryOf(t, read[i])>> ELSE <<>>])

\* The entries, in a set of one: a value is thus worked out only once.
read_tiff_data(t) == {entries \o Read(t, visits) : visits \in {Visits(t)}}

-----------------------------------------------------------------------------
(* jpeg_validator.h, at the cell pos *)

MarkerAt(k) == IF HasKind(k, "marker") THEN Cell(k, NoPicture).m ELSE "none"
APP == {"JFIF", "APP", "Exif", "APP1"}            \* FF E?
Blocks == APP \cup {"table", "SOF", "COM"}        \* table: C4, CC or DB; SOF: with a size
InStream == {"SOI", "RST", "SOS", "table", "SOF"} \* FF C0 .. FF DF, but for the end

\* The places the loop comes to from k on; a block that the sbuf cuts is not looked at.
Chain(k) ==
  LET chain[i \in k .. bufsize + 1] ==
        IF i >= bufsize THEN <<i>>
        ELSE IF MarkerAt(i) \in Blocks
             THEN IF i + 1 = bufsize THEN <<i + 1>>
                  ELSE <<i>> \o chain[Least(i + Cell(i, NoPicture).size, bufsize)]
        ELSE IF MarkerAt(i) \in {"SOI", "RST"} THEN <<i>> \o chain[i + 1]
        ELSE <<i>>
  IN  chain[k]

StreamEnd(k) ==
  CHOOSE e \in k .. bufsize :
    /\ \A i \in k .. e - 1 : MarkerAt(i) \in InStream \/ HasKind(i, "data")
    /\ e = bufsize \/ ~(MarkerAt(e) \in InStream \/ HasKind(e, "data"))

\* [len, complete]: len is 0 if it is no JPEG.  One with an EXIF block is "truncated",
\* whatever comes behind it.
validate_jpeg(chain) ==
  LET last == Last(chain)
      seen == {MarkerAt(chain[i]) : i \in DOMAIN chain}
      sized == "table" \in seen /\ "SOF" \in seen
      stream == last + Cell(last, NoPicture).size
      e == IF stream >= bufsize THEN bufsize ELSE StreamEnd(stream)
      exif == seen \cap {"Exif", "APP1"} # {} IN
  IF ~({"SOI", "JFIF"} \subseteq seen) THEN [len |-> 0, complete |-> FALSE]
  ELSE IF MarkerAt(last) = "SOS"
       THEN IF ~sized THEN [len |-> 0, complete |-> FALSE]
            ELSE IF e < bufsize /\ MarkerAt(e) = "EOI" THEN [len |-> e + 1 - pos, complete |-> ~exif]
            ELSE [len |-> e - pos, complete |-> FALSE]
  ELSE [len |-> IF ~exif THEN 0 ELSE IF MarkerAt(last) \in {"EOI", "TEM"} THEN last + 1 - pos ELSE last - pos,
        complete |-> FALSE]

\* The offset of the TIFF header, or 0; the blocks up to it must begin in the page.
get_tiff_offset_from_exif ==
  LET offset[k \in pos + 1 .. bufsize] ==
        IF k >= pagesize \/ MarkerAt(k) \notin APP THEN 0
        ELSE IF MarkerAt(k) = "Exif" THEN k + 1 - pos
        ELSE offset[Least(k + Cell(k, NoPicture).size, bufsize)]
  IN  offset[pos + 1]

\* Behind [is |-> "8BPS", n], resources [is |-> "resource", size, exif] in n cells.
get_tiff_offset_from_psd ==
  LET end == pos + 1 + Cell(pos, NoPicture).n
      offset[k \in pos + 1 .. end] ==
        IF k = end \/ ~HasKind(k, "resource") THEN 0
        ELSE IF Cell(k, NoPicture).exif THEN k + 1 - pos
        ELSE offset[Least(k + Cell(k, NoPicture).size, end)]
  IN  offset[pos + 1]

-----------------------------------------------------------------------------
(* scan_exif.cpp *)

exif_limit == IF bufsize - pagesize < MIN_JPEG_SIZE THEN bufsize - MIN_JPEG_SIZE ELSE pagesize

\* An "exif" feature, and the values that are in it.
Value(kind, at) == IF at >= 0 THEN <<Slice(kind, at, 1)>> ELSE <<>>
record_exif_data(read) ==
  IF read = <<>> THEN <<>>
  ELSE <<Slice("exif", pos, 0)>> \o FlattenSeq([i \in DOMAIN read |-> Value("entry", read[i].at)])

Position == {"GPSLongitudeRef", "GPSLongitude", "GPSLatitudeRef", "GPSLatitude", "GPSAltitude", "GPSSpeed", "GPSTrack"}
\* A "gps" feature, and the values of its latitude and longitude: of each the last.
record_gps_data(read) ==
  LET gps == {i \in DOMAIN read : read[i].ifd = "ifd0" /\ read[i].dir = "gps" /\ read[i].name \in Position}
      Of(name) == {i \in gps : read[i].name = name}
      LastOf(name) == IF Of(name) = {} THEN -1 ELSE read[CHOOSE i \in Of(name) : \A j \in Of(name) : j <= i].at
  IN  IF gps = {} THEN <<>>
      ELSE <<Slice("gps", pos, 0)>> \o Value("position", LastOf("GPSLatitude")) \o Value("position", LastOf("GPSLongitude"))

\* Mutant: entries.clear() is forgotten.
Record_Kept(carved, read) ==
  reports' = reports \o carved \o record_exif_data(read) \o record_gps_data(read) /\ entries' = read
Record(carved, read) == reports' = reports \o carved \o record_exif_data(read) \o record_gps_data(read) /\ entries' = <<>>
AllRead(offset) == IF offset # 0 /\ is_maybe_valid_tiff(pos + offset) THEN read_tiff_data(pos + offset) ELSE {entries}

\* process_possible_jpeg() returns before anything is recorded, and before clear().
NotRecorded(read) == Silent /\ entries' = read

JpegHere == MarkerAt(pos) = "SOI" /\ MarkerAt(pos + 1) \in APP

ExifJpeg ==
  /\ JpegHere
  /\ \E read \in AllRead(get_tiff_offset_from_exif) : \E res \in {validate_jpeg(chain) : chain \in {Chain(pos)}} :
       LET carve == res.complete \/ res.len > min_jpeg_size IN
       IF res.len <= 0 THEN NotRecorded(read) /\ MoveTo(pos + 1)
       ELSE /\ Record(IF carve THEN <<Slice("jpeg", pos, res.len)>> ELSE <<>>, read)
            /\ MoveTo(pos + IF carve THEN res.len ELSE 1)

\* A Photoshop file is processed as a possible JPEG, which it never is.
ExifPsd ==
  /\ HasKind(pos, "8BPS")
  /\ \E read \in AllRead(get_tiff_offset_from_psd) : NotRecorded(read)
  /\ MoveTo(pos + 1)

ExifTiff ==
  /\ HasKind(pos, "TIFF") /\ MoveTo(pos + 1)
  /\ IF is_maybe_valid_tiff(pos) THEN \E read \in read_tiff_data(pos) : Record(<<>>, read)
     ELSE Silent /\ UNCHANGED entries

ExifOther == ~JpegHere /\ ~HasKind(pos, "8BPS") /\ ~HasKind(pos, "TIFF") /\ MoveTo(pos + 1) /\ Silent /\ UNCHANGED entries

\* The exif_scanner is deleted at the end of the page.
ExifStep ==
  /\ In("exif")
  /\ \/ pos < exif_limit /\ UNCHANGED memo /\ (ExifJpeg \/ ExifPsd \/ ExifTiff \/ ExifOther)
     \/ pos >= exif_limit /\ LeavePage /\ Silent /\ entries' = <<>>

-----------------------------------------------------------------------------
(* What it reports *)

Marked(q, ms) == q \in Places /\ CellAt(q).is = "marker" /\ CellAt(q).m \in ms
TiffPlaces == {q \in Places : CellAt(q).is = "TIFF"}
Headers == {q \in Places : CellAt(q).is = "8BPS" \/ (Marked(q, {"SOI"}) /\ Marked(q + 1, APP))}
Before(S, q) == CHOOSE p \in {-1} \cup {p \in S : p <= q} : \A r \in S : r <= q => r <= p
FeatureOf(i) ==
  LET features == {j \in 1 .. i : reports[j].kind \in {"exif", "gps"}}
  IN  reports[CHOOSE j \in features : \A k \in features : k <= j].from
HasFeature(q) == Reported("exif", q, q)

\* A value and a position are written with the file whose TIFF structure they are in,
\* or with that structure itself; those of a file of which nothing is written, with the
\* first feature behind it in the page.
ExifSound ==
  \A i \in DOMAIN reports :
    reports[i].kind \in {"entry", "position"} =>
      LET t == Before(TiffPlaces, reports[i].from)
          file == Before(Headers, t)
          written == FeatureOf(i) IN
      \/ written \in {t, file}
      \/ ~HasFeature(file) /\ file < written /\ PageFirst(file) = PageFirst(written)
         /\ ~\E q \in file .. written - 1 : HasFeature(q)

ExifBound(q) == IF SbufBound(q) - PageBound(q) < MIN_JPEG_SIZE THEN SbufBound(q) - MIN_JPEG_SIZE ELSE PageBound(q)
\* The search goes on behind a JPEG that is carved.
PassedOver(q) == \E i \in DOMAIN reports : LET r == reports[i] IN
                   r.kind = "jpeg" /\ r.from < q /\ q < r.to /\ PageFirst(r.from) = PageFirst(q)
ExifOf(q) == \E p \in Headers : p < q - 1 /\ Marked(q - 1, {"Exif"}) /\ \A k \in p + 1 .. q - 1 : Marked(k, APP)

\* The values of the first directory, up to one that ends the reading, and the latitude.
ValuesFound(t) ==
  LET ifd == t + CellAt(t).ifd0
      entry(i) == CellAt(ifd + i)
      place(i) == IF entry(i).bytes <= 4 THEN ifd + i ELSE t + entry(i).offset
      plain(i) == entry(i).is = "entry" /\ entry(i).tag \in TiffTags IN
  /\ \A g \in 1 .. 4 :
       /\ CellAt(ifd).is = "IFD" /\ CellAt(ifd).n = 1 /\ entry(1).is = "entry" /\ entry(1).tag = "GPSInfoIFD" /\ entry(1).type \in 1 .. 12
       /\ t + entry(1).offset = ifd + g /\ CellAt(ifd + g).is = "IFD" /\ CellAt(ifd + g).n = 1
       /\ ifd + g + 1 < SbufBound(t) /\ entry(g + 1).is = "entry" /\ entry(g + 1).tag = "GPSLatitude"
       /\ entry(g + 1).bytes < OPT_MAX_EXIF_BYTES /\ entry(g + 1).type \in 1 .. 5
       /\ place(g + 1) < SbufBound(t) /\ CellAt(place(g + 1)).is # "blank" /\ place(g + 1) - t < DATA_OFFSET_WRAP
       => Reported("position", place(g + 1), place(g + 1) + 1)
  /\ \A n \in 1 .. 3 :
    /\ ifd + n < SbufBound(t) /\ CellAt(ifd).is = "IFD" /\ n <= CellAt(ifd).n /\ CellAt(ifd).n <= MAYBE_MAX_ENTRIES
    /\ \A i \in 1 .. n : plain(i)
    /\ entry(1).type \in 1 .. 12 /\ entry(n).type \in 1 .. 5 /\ place(n) - t < DATA_OFFSET_WRAP
    /\ place(n) < SbufBound(t) /\ CellAt(place(n)).is # "blank"
    /\ FoldLeft(LAMBDA sum, i : sum + entry(i).bytes, 0, [i \in 1 .. n |-> i]) < OPT_MAX_EXIF_BYTES
    => Reported("entry", place(n), place(n) + 1)

\* A plain JPEG from q on: its blocks, SOS at s, EOI at e.
PlainJpeg(q, s, e) ==
  /\ q \in Headers /\ Marked(s, {"SOS"}) /\ Marked(e, {"EOI"}) /\ CellAt(s).size = 1
  /\ \A k \in q + 1 .. s - 1 : Marked(k, Blocks) /\ CellAt(k).size = 1
  /\ \A m \in {"JFIF", "table", "SOF"} : \E k \in q + 1 .. s - 1 : CellAt(k).m = m
  /\ \A k \in s + 1 .. e - 1 : CellAt(k).is = "data"

\* At the end, of each page, each TIFF structure that could be valid has been read and its
\* values are written, and each whole JPEG is carved (one with an EXIF block only if it is
\* not small), but for those inside a JPEG that is carved and in the last bytes of the image.
ExifFound ==
  WalkDone /\ scanner = "exif" =>
    \A q \in Places :
      /\ CellAt(q).is = "TIFF" /\ CellAt(q).ifd0 # 0 /\ q < ExifBound(q) /\ (PassedOver(q) => ExifOf(q)) => ValuesFound(q)
      /\ \A s \in q + 1 .. ImageSize - 1 : \A e \in s + 1 .. SbufBound(q) - 1 :
           /\ PlainJpeg(q, s, e) /\ q < ExifBound(q) /\ ~PassedOver(q)
           /\ (\E k \in q + 1 .. s : Marked(k, {"Exif", "APP1"})) => e + 1 - q > min_jpeg_size
           => Reported("jpeg", q, e + 1)

\* Two JPEGs that are carved overlap only if the second begins in a later page.
JpegsCarvedOnce ==
  \A i, j \in DOMAIN reports :
    i < j /\ reports[i].kind = "jpeg" /\ reports[j].kind = "jpeg" /\ Overlap(reports[i], reports[j]) =>
      reports[j].from >= PageBound(reports[i].from)
===============================================================================
