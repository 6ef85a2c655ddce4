---------------------- MODULE FixedWidthIntegerVector ----------------------
(***************************************************************************)
(* The fixed-width integer vector compression used for both attribute      *)
(* vectors of a variable-string dictionary segment: an immutable sequence  *)
(* of unsigned integers stored with 1, 2 or 4 bytes per element.           *)
(*                                                                         *)
(* Only the compressor's interface is part of the sources                  *)
(* (fixed_width_integer_compressor.hpp); the behaviour behind it is taken  *)
(* from the design document (spec.md, section 4.1).                        *)
(*                                                                         *)
(* Integer widths are scaled: a byte has ByteBits bits.  The code has      *)
(* ByteBits = 8.  Checking with a smaller ByteBits moves the width         *)
(* boundaries (2^8, 2^16, 2^32) to values small dictionaries reach.        *)
(***************************************************************************)
EXTENDS Naturals, Sequences, SequencesExt

CONSTANT ByteBits       \* bits per byte; 8 in the code

ASSUME ByteBitsAssumption == ByteBits \in 1..8

\* The element widths, in bytes, of FixedWidthInteger{1,2,4}Byte.
Widths == {1, 2, 4}

\* std::numeric_limits<uintN_t>::max() of the unsigned type of w bytes.
MaxOfWidth(w) == 2^(ByteBits * w) - 1

UInt32 == 0..MaxOfWidth(4)

\* static_cast from uint32_t to the unsigned type of w bytes.
Narrow(value, w) == value % 2^(ByteBits * w)

CompressedVector == [width : Widths, data : Seq(UInt32)]

(***************************************************************************)
(* _find_max_value: the largest element, 0 for an empty vector.            *)
(***************************************************************************)
FindMaxValue(vector) ==
    Max(Range(vector) \cup {0})

(***************************************************************************)
(* _compress_using_uint_type: every element is narrowed to the chosen      *)
(* type, whether or not it fits.                                           *)
(***************************************************************************)
CompressUsingUIntType(vector, w) ==
    [width |-> w, data |-> [i \in DOMAIN vector |-> Narrow(vector[i], w)]]

(***************************************************************************)
(* _compress_using_max_value: the narrowest width whose maximum is at      *)
(* least max_value.                                                        *)
(***************************************************************************)
CompressUsingMaxValue(vector, max_value) ==
    CompressUsingUIntType(vector,
        Min({w \in Widths : max_value <= MaxOfWidth(w)} \cup {4}))

(***************************************************************************)
(* compress: meta_info.max_value when the caller supplies it, the          *)
(* vector's own maximum otherwise.  NoMaxValue stands for the empty        *)
(* optional.                                                               *)
(***************************************************************************)
NoMaxValue == MaxOfWidth(4) + 1

Compress(vector, max_value) ==
    CompressUsingMaxValue(vector,
        IF max_value = NoMaxValue THEN FindMaxValue(vector) ELSE max_value)

\* size() of a compressed vector.
Size(compressed) == Len(compressed.data)

\* The decompressor's get(i), i counted from 0.
Get(compressed, i) == compressed.data[i + 1]

\* data_size(): the bytes the elements occupy.
DataSize(compressed) == compressed.width * Len(compressed.data)

=============================================================================
