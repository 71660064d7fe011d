------------------------------ MODULE PixelUpload ------------------------------
(* How many bytes of wasm memory glTexSubImage2D hands to WebGL                *)
(* (src/on-browser/src/getSizePerPixel.ts, and envGl.ts:179-218): a table of   *)
(* bytes per pixel, the row of pixels rounded up to the unpack alignment with  *)
(* JavaScript's 32 bit operators, times the height.  WebGL then reads the rows *)
(* it needs out of that view, and a length the memory does not have throws.    *)
(*                                                                             *)
(* The state is that of WebGL's pixel store, which glPixelStorei sets and the   *)
(* computation reads; the properties are about every request under it.         *)
(*                                                                             *)
(* The operands of the bit operators are taken modulo 2 * Half, and the upper  *)
(* half of them is negative (Half is 2^31 in JavaScript).  Memory is smaller   *)
(* than Half (main-worker.ts:17-21: 2^30), but a row need not lie in memory:   *)
(* UNPACK_ROW_LENGTH alone makes it longer than 2 * Half.                      *)
(* Bounds: the sets of sizes below.                                            *)
EXTENDS Integers, FiniteSets

CONSTANTS Half,         \* of the operands of &, those from here on are negative
          Widths, Heights,
          RowLengths,   \* UNPACK_ROW_LENGTH, 0 for "the width"
          Skips,        \* UNPACK_SKIP_PIXELS and UNPACK_SKIP_ROWS
          Rooms         \* bytes from the pixels' address to the end of memory

ASSUME PixelAssumption ==
    /\ Half \in Nat \ {0} /\ Half % 8 = 0   \* a multiple of every alignment
    /\ Rooms \subseteq 0 .. Half - 1
    /\ Widths \subseteq Nat /\ Heights \subseteq Nat
    /\ RowLengths \subseteq Nat /\ Skips \subseteq Nat

Alignments == {1, 2, 4, 8}

VARIABLE pixelStore   \* the parameters that say where in memory the pixels are

PixelStoreInit ==
    pixelStore = [alignment |-> 4, rowLength |-> 0, skipPixels |-> 0, skipRows |-> 0]

(* Every parameter is passed on.  Those of packing, of 3D images and of the    *)
(* conversion of pixels, and values WebGL refuses, leave these four alone.     *)
glPixelStorei ==
    \/ \E n \in Alignments : pixelStore' = [pixelStore EXCEPT !.alignment = n]
    \/ \E n \in RowLengths : pixelStore' = [pixelStore EXCEPT !.rowLength = n]
    \/ \E n \in Skips : pixelStore' = [pixelStore EXCEPT !.skipPixels = n]
    \/ \E n \in Skips : pixelStore' = [pixelStore EXCEPT !.skipRows = n]

PixelSpec == PixelStoreInit /\ [][glPixelStorei]_pixelStore

\* The cases of the switch: format, the type it takes, bytes per pixel.
Table ==
    {<<"RGBA", "UNSIGNED_BYTE", 4>>, <<"RGBA", "UNSIGNED_SHORT_4_4_4_4", 2>>,
     <<"RGBA", "UNSIGNED_SHORT_5_5_5_1", 2>>, <<"RGB", "UNSIGNED_BYTE", 3>>,
     <<"RGB", "UNSIGNED_SHORT_5_6_5", 2>>, <<"LUMINANCE_ALPHA", "UNSIGNED_BYTE", 2>>,
     <<"LUMINANCE", "UNSIGNED_BYTE", 1>>, <<"ALPHA", "UNSIGNED_BYTE", 1>>,
     <<"RED", "UNSIGNED_BYTE", 1>>, <<"R8", "UNSIGNED_BYTE", 1>>,
     <<"R8_SNORM", "BYTE", 1>>, <<"RG8", "UNSIGNED_BYTE", 2>>,
     <<"RG8_SNORM", "BYTE", 2>>, <<"RGB8", "UNSIGNED_BYTE", 3>>,
     <<"RGB8_SNORM", "BYTE", 3>>, <<"RGB565", "UNSIGNED_SHORT_5_6_5", 2>>,
     <<"RGBA4", "UNSIGNED_SHORT_4_4_4_4", 2>>, <<"RGB5_A1", "UNSIGNED_SHORT_5_5_5_1", 2>>,
     <<"RGBA8", "UNSIGNED_BYTE", 4>>, <<"RGBA8_SNORM", "BYTE", 4>>,
     <<"RGB10_A2", "UNSIGNED_INT_2_10_10_10_REV", 4>>,
     <<"RGB10_A2UI", "UNSIGNED_INT_2_10_10_10_REV", 4>>,
     <<"SRGB8", "UNSIGNED_BYTE", 3>>, <<"SRGB8_ALPHA8", "UNSIGNED_BYTE", 4>>,
     <<"R16F", "HALF_FLOAT", 2>>, <<"RG16F", "HALF_FLOAT", 4>>,
     <<"RGB16F", "HALF_FLOAT", 6>>, <<"RGBA16F", "HALF_FLOAT", 8>>,
     <<"R32F", "FLOAT", 4>>, <<"RG32F", "FLOAT", 8>>,
     <<"RGB32F", "FLOAT", 12>>, <<"RGBA32F", "FLOAT", 16>>,
     <<"R11F_G11F_B10F", "UNSIGNED_INT_10F_11F_11F_REV", 4>>,
     <<"RGB9_E5", "UNSIGNED_INT_5_9_9_9_REV", 4>>,
     <<"R8I", "BYTE", 1>>, <<"R8UI", "UNSIGNED_BYTE", 1>>,
     <<"R16I", "SHORT", 2>>, <<"R16UI", "UNSIGNED_SHORT", 2>>,
     <<"R32I", "INT", 4>>, <<"R32UI", "UNSIGNED_INT", 4>>,
     <<"RG8I", "BYTE", 2>>, <<"RG8UI", "UNSIGNED_BYTE", 2>>,
     <<"RG16I", "SHORT", 4>>, <<"RG16UI", "UNSIGNED_SHORT", 4>>,
     <<"RG32I", "INT", 8>>, <<"RG32UI", "UNSIGNED_INT", 8>>,
     <<"RGB8I", "BYTE", 3>>, <<"RGB8UI", "UNSIGNED_BYTE", 3>>,
     <<"RGB16I", "SHORT", 6>>, <<"RGB16UI", "UNSIGNED_SHORT", 6>>,
     <<"RGB32I", "INT", 12>>, <<"RGB32UI", "UNSIGNED_INT", 12>>,
     <<"RGBA8I", "BYTE", 4>>, <<"RGBA8UI", "UNSIGNED_BYTE", 4>>,
     <<"RGBA16I", "SHORT", 8>>, <<"RGBA16UI", "UNSIGNED_SHORT", 8>>,
     <<"RGBA32I", "INT", 16>>, <<"RGBA32UI", "UNSIGNED_INT", 16>>}

\* The sizes the switch has for a format and a type: one, or none (it throws).
getSizePerPixel(format, type) ==
    {row[3] : row \in {r \in Table : r[1] = format /\ r[2] = type}}

\* A bit pattern read as a signed integer, and back.
Signed(bits) == IF bits < Half THEN bits ELSE bits - 2 * Half
Bits(n) == n % (2 * Half)

\* x & -y, for y a power of two: the bits below y are cleared.
AndMinus(x, y) == Signed(Bits(x) - (Bits(x) % y))

\* Mutant of RoundedToNextMultipleOf: y is added whole.
RoundedUpTwice(x, y) == AndMinus(x + y, y)

\* Mutant of RoundedToNextMultipleOf: rounded down.
RoundedDown(x, y) == AndMinus(x, y)

\* (x + y - 1) & -y
RoundedToNextMultipleOf(x, y) == AndMinus(x + y - 1, y)

\* UNPACK_ROW_LENGTH || width
RowPixels(r) == IF r.rowLength = 0 THEN r.width ELSE r.rowLength

computeUnpackAlignedImageSize(r, sizePerPixel) ==
    r.height * RoundedToNextMultipleOf(RowPixels(r) * sizePerPixel, r.alignment)

\* Calls of glTexSubImage2D under the pixel store `store`: any size, also a row
\* that is not in memory, and any pair the table has.
Requests(store, format, type) ==
    [format : {format}, type : {type}, width : Widths, height : Heights, room : Rooms,
     rowLength : {store.rowLength}, alignment : {store.alignment},
     skipPixels : {store.skipPixels}, skipRows : {store.skipRows}]

Asked(store) == UNION {Requests(store, row[1], row[2]) : row \in Table}

\* `new Uint8Array(memory.buffer, pixelsPtr, bytes)` fits, and WebGL gets it; if
\* there is no such length the upload throws, also for want of a size: "Invalid
\* format", "Invalid type", or the RangeError of the view.
Uploads(r) ==
    {computeUnpackAlignedImageSize(r, size) : size \in getSizePerPixel(r.format, r.type)}
        \cap 0 .. r.room

-----------------------------------------------------------------------------
(* The reference: what WebGL 2 reads of the view.                              *)

OneChannel == {"LUMINANCE", "ALPHA", "RED", "R8", "R8_SNORM", "R16F", "R32F",
               "R8I", "R8UI", "R16I", "R16UI", "R32I", "R32UI"}
TwoChannels == {"LUMINANCE_ALPHA", "RG8", "RG8_SNORM", "RG16F", "RG32F",
                "RG8I", "RG8UI", "RG16I", "RG16UI", "RG32I", "RG32UI"}
ThreeChannels == {"RGB", "RGB8", "RGB8_SNORM", "SRGB8", "RGB16F", "RGB32F",
                  "RGB8I", "RGB8UI", "RGB16I", "RGB16UI", "RGB32I", "RGB32UI"}

Channels(format) ==
    CASE format \in OneChannel -> 1
      [] format \in TwoChannels -> 2
      [] format \in ThreeChannels -> 3
      [] OTHER -> 4

\* Bytes per pixel: a packed type holds all channels, another one channel.
PixelBytes(format, type) ==
    CASE type \in {"UNSIGNED_SHORT_4_4_4_4", "UNSIGNED_SHORT_5_5_5_1",
                   "UNSIGNED_SHORT_5_6_5"} -> 2
      [] type \in {"UNSIGNED_INT_2_10_10_10_REV", "UNSIGNED_INT_10F_11F_11F_REV",
                   "UNSIGNED_INT_5_9_9_9_REV"} -> 4
      [] type \in {"BYTE", "UNSIGNED_BYTE"} -> Channels(format)
      [] type \in {"SHORT", "UNSIGNED_SHORT", "HALF_FLOAT"} -> 2 * Channels(format)
      [] type \in {"INT", "UNSIGNED_INT", "FLOAT"} -> 4 * Channels(format)

\* The distance from one row to the next.
Stride(r) ==
    r.alignment * ((RowPixels(r) * PixelBytes(r.format, r.type) + r.alignment - 1)
                   \div r.alignment)

\* WebGL 2 refuses, whatever the view, to read beyond the end of a row
\* (INVALID_OPERATION: UNPACK_SKIP_PIXELS + width > row length).
PastRow(r) == r.skipPixels + r.width > RowPixels(r)

\* The bytes up to the last pixel of the last row, the skipped ones included; none
\* of an empty image or one that is refused.
ImageBytes(r) ==
    IF r.width = 0 \/ r.height = 0 \/ PastRow(r) THEN 0
    ELSE (r.skipRows + r.height - 1) * Stride(r)
         + (r.skipPixels + r.width) * PixelBytes(r.format, r.type)

ShortForSkippedRows(store) ==
    \A r \in Asked(store) : \A bytes \in Uploads(r) :
        Stride(r) < 2 * Half =>
            (bytes < ImageBytes(r) <=> ImageBytes(r) > 0 /\ r.skipRows > 0)

ThrownWhenShort(store) ==
    \A r \in Asked(store) : Uploads(r) = {} => r.height * Stride(r) > r.room

\* Every state of the pixel store, each looked at once.
PixelStores == [alignment : Alignments, rowLength : RowLengths \cup {0},
                skipPixels : Skips \cup {0}, skipRows : Skips \cup {0}]
AllShortForSkippedRows == \A store \in PixelStores : ShortForSkippedRows(store)
AllThrownWhenShort == \A store \in PixelStores : ThrownWhenShort(store)

(* While a row with its padding is shorter than 2 * Half bytes, the view       *)
(* handed to WebGL holds every byte WebGL reads of it, for each format, type,  *)
(* size, alignment, row length and number of skipped pixels, exactly as long   *)
(* as no rows are skipped: UNPACK_SKIP_ROWS is what the size does not count    *)
(* (getSizePerPixel.ts:213-219), and then WebGL refuses the upload and the     *)
(* texture keeps its old content.  Nothing is said of longer rows, whose       *)
(* length the bit operators wrap (getSizePerPixel.ts:211).                     *)
ShortOnlyForSkippedRows == pixelStore \in PixelStores /\ AllShortForSkippedRows

(* An upload the table accepts throws only when the memory does not have the   *)
(* rows with their padding, also when a row is Half bytes or longer and the    *)
(* bit operators turn it negative or wrap it.                                  *)
ThrowsOnlyWhenShort == pixelStore \in PixelStores /\ AllThrownWhenShort
=============================================================================
