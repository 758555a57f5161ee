--------------------------- MODULE MCByteStream ---------------------------
\* Small values of ByteStream's constants.
EXTENDS ByteStream, FiniteSets

Configuration(size, frames, refs, qp, profile) ==
  [width |-> size[1], height |-> size[2], frames_to_encode |-> frames,
   ref_frame_num |-> refs, qp |-> qp, profile_idc |-> profile, level_idc |-> 30]

\* The one the repository ships, and others at the ends of the ranges: field
\* widths 4 and 7, fields that wrap, qp 0 and 51, a one-macroblock picture.
MCConfigs ==
  {Configuration(<<176, 144>>, 3, 10, 28, 66),
   Configuration(<<16, 16>>, 40, 1, 0, 66),
   Configuration(<<4096, 2304>>, 0, 3, 51, 77)}

MCTicks == {0, 17}

\* Up to two elements of every kind and length after each other.
Short ==
  {U(n, value) : n \in {1, 3}, value \in {0, 1}} \cup {U(16, 0), U(12, 4095)}
    \cup {UE(value) : value \in {0, 1, 2, 5, 7, 8, 255, 4094}}
    \cup {SE(value) : value \in {-3, -1, 0, 1, 2, 4}}

\* Runs of zeros and small bytes at every alignment: a filler of one to eight
\* bits, then five bytes.
Bytes == {b * 256 + c : b \in {0, 3}, c \in {0, 2}}

MCPayloads ==
  <<{<<e>> : e \in Short} \cup {<<e, f>> : e \in Short, f \in Short}
      \cup {<<U(n, 1), U(16, v), U(16, w), U(8, last)>> :
               n \in 1..8, v \in Bytes, w \in Bytes, last \in {1, 2}},
    {<<UE(0)>>}>>

MCByte == 0..255

\* Nalu::Serial writes four headers.
MCHeaders == {103, 104, 101, 65}
=============================================================================
