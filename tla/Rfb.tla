-------------------------------- MODULE Rfb --------------------------------
(***************************************************************************)
(* The pure half of the live view's protocol (vmette-daemon/rfb.rs): which *)
(* rectangles of two frames differ, how a pixel is encoded in the format a *)
(* viewer has asked for, and who speaks when in the handshake (view.rs).   *)
(*                                                                         *)
(* A frame is a function from <<x, y>> to colours, a pixel format a record *)
(* with a maximum and a shift per channel, and a byte string a sequence.   *)
(* The Viewer... operators are the other end of the protocol (RFC 6143),   *)
(* external.  Left out: the header bytes of the messages, the alpha        *)
(* channel, and the colours of formats whose channels have other than 2^n  *)
(* levels, overlap or do not fit into their pixel: there are none defined. *)
(***************************************************************************)
EXTENDS Integers, Sequences, SequencesExt

Channels == {"red", "green", "blue"}

-----------------------------------------------------------------------------
(* changed_rects.                                                          *)

Smaller(a, b) == IF a < b THEN a ELSE b

\* The left, or upper, edges of the tiles that cover n pixels.
Edges(n, tile) == [i \in 1..((n + tile - 1) \div tile) |-> (i - 1) * tile]

TileChanged(a, b, tx, ty, tw, th) ==
  \E x \in tx..(tx + tw - 1), y \in ty..(ty + th - 1) : a[<<x, y>>] # b[<<x, y>>]

Area(x, y, w, h) == [x |-> x, y |-> y, w |-> w, h |-> h]

\* Mutant: a run of changed tiles that reaches the right edge is forgotten.
FlushNot(acc, width, ty, th) == acc.rects

\* The run that is still open at the right edge.
Flush(acc, width, ty, th) ==
  IF acc.run = {} THEN acc.rects
  ELSE LET start == CHOOSE s \in acc.run : TRUE
       IN Append(acc.rects, Area(start, ty, width - start, th))

\* The next tile begins a run, ends one, or neither.
NextTile(acc, changed, tx, ty, th) ==
  LET start == CHOOSE s \in acc.run : TRUE
  IN CASE changed /\ acc.run = {} -> [acc EXCEPT !.run = {tx}]
       [] ~changed /\ acc.run # {} ->
            [rects |-> Append(acc.rects, Area(start, ty, tx - start, th)),
             run   |-> {}]
       [] OTHER -> acc

\* Adjacent changed tiles of a row of tiles make one rectangle.
RowRects(prev, cur, width, height, tile, ty) ==
  LET th    == Smaller(tile, height - ty)
      edges == Edges(width, tile)
      acc[i \in 0..Len(edges)] ==
        IF i = 0 THEN [rects |-> <<>>, run |-> {}]
        ELSE LET tx == edges[i]
             IN NextTile(acc[i - 1],
                         TileChanged(prev, cur, tx, ty, Smaller(tile, width - tx), th),
                         tx, ty, th)
  IN Flush(acc[Len(edges)], width, ty, th)

ChangedRects(prev, cur, width, height, tile) ==
  LET rows == Edges(height, tile)
      acc[i \in 0..Len(rows)] ==
        IF i = 0 THEN <<>>
        ELSE acc[i - 1] \o RowRects(prev, cur, width, height, tile, rows[i])
  IN acc[Len(rows)]

Pixels(r) == (r.x..(r.x + r.w - 1)) \X (r.y..(r.y + r.h - 1))

\* What a viewer that shows prev shows after an update with these rectangles
\* of cur (framebuffer_update).
ViewerPaints(prev, cur, rects) ==
  [p \in DOMAIN prev |->
     IF \E i \in DOMAIN rects : p \in Pixels(rects[i]) THEN cur[p] ELSE prev[p]]

-----------------------------------------------------------------------------
(* PixelFormat.                                                            *)

Supported(pf) ==
  /\ pf.bpp \in {8, 16, 32}
  /\ pf.trueColor
  /\ \A c \in Channels : pf.max[c] > 0 /\ pf.shift[c] < pf.bpp

Hi(n) == n \div 256
Lo(n) == n % 256
Flag(b) == IF b THEN 1 ELSE 0

EncodeFormat(pf) ==
  <<pf.bpp, pf.depth, Flag(pf.bigEndian), Flag(pf.trueColor),
    Hi(pf.max["red"]), Lo(pf.max["red"]), Hi(pf.max["green"]), Lo(pf.max["green"]),
    Hi(pf.max["blue"]), Lo(pf.max["blue"]),
    pf.shift["red"], pf.shift["green"], pf.shift["blue"], 0, 0, 0>>

ParseFormat(b) ==
  [bpp |-> b[1], depth |-> b[2], bigEndian |-> b[3] # 0, trueColor |-> b[4] # 0,
   max |-> [red |-> b[5] * 256 + b[6], green |-> b[7] * 256 + b[8],
            blue |-> b[9] * 256 + b[10]],
   shift |-> [red |-> b[11], green |-> b[12], blue |-> b[13]]]

\* Mutant: rounds down.
ScaleDown(c, max) == IF max = 255 THEN c ELSE (c * max) \div 255

\* Rounds to nearest.
Scale(c, max) == IF max = 255 THEN c ELSE (c * max + 127) \div 255

\* A pixel, and a shift by places of one.
PixelBits == 32
Two(places) == 2^places

\* The places of the ones of a channel's value, and the number of the first n
\* bits that has ones at some.
Ones(n) == {i \in 0..15 : (n \div Two(i)) % 2 = 1}
Number(ones, n) ==
  LET sum[k \in 0..PixelBits] ==
        IF k = 0 THEN 0
        ELSE sum[k - 1] + (IF k - 1 \in ones THEN Two(k - 1) ELSE 0)
  IN sum[n]

\* A shift moves the ones, and "|" puts them together.
PixelOnes(pf, rgb) ==
  UNION {{i + pf.shift[c] : i \in Ones(Scale(rgb[c], pf.max[c]))} : c \in Channels}

EncodePixel(pf, rgb) ==
  LET ones   == PixelOnes(pf, rgb)
      little == [i \in 1..(pf.bpp \div 8) |->
                   Number({k \in 0..7 : 8 * (i - 1) + k \in ones}, 8)]
  IN IF pf.bigEndian THEN Reverse(little) ELSE little

\* The viewer puts the bytes together, and takes out the channels by its format.
Joined(little) ==
  LET sum[i \in 0..Len(little)] ==
        IF i = 0 THEN 0 ELSE sum[i - 1] + Two(8 * (i - 1)) * little[i]
  IN sum[Len(little)]

ViewerDecodes(pf, bytes) ==
  LET value == Joined(IF pf.bigEndian THEN Reverse(bytes) ELSE bytes)
  IN [c \in Channels |-> (value \div Two(pf.shift[c])) % (pf.max[c] + 1)]

\* The channels have 2^n levels each, fit into the pixel and do not overlap, as
\* RFC 6143 wants.
Sound(pf) ==
  LET Bits(c) == {pf.shift[c] + i : i \in {j \in 0..15 : Two(j) <= pf.max[c]}}
  IN /\ \A c \in Channels : \E n \in 0..16 : pf.max[c] = Two(n) - 1
     /\ \A c \in Channels : \A b \in Bits(c) : b < pf.bpp
     /\ \A c, d \in Channels : c # d => Bits(c) \cap Bits(d) = {}

-----------------------------------------------------------------------------
(* The handshake, as the list of messages that pass in turn.               *)

\* Mutant: the list of types is offered to every viewer.
NegotiationAlwaysList(minor) == <<"list", "choice">>

TypeNegotiation(minor) == IF minor < 7 THEN <<"type">> ELSE <<"list", "choice">>

\* After the versions: the type, VNC authentication whose response is not
\* looked at, the result, and the two init messages.
Handshake(minor) ==
  TypeNegotiation(minor)
    \o <<"challenge", "response", "result", "clientInit", "serverInit">>

\* A viewer of version 3.3 is told the type, and later ones choose it, Apple's
\* 3.889 among them.
ViewerHandshake(minor) ==
  (IF minor \in {7, 8, 889} THEN <<"list", "choice">> ELSE <<"type">>)
    \o <<"challenge", "response", "result", "clientInit", "serverInit">>

-----------------------------------------------------------------------------
\* The frames of a small screen, and the formats viewers ask for.
ScreenOf(w, h) == (0..(w - 1)) \X (0..(h - 1))

(* An incremental update repaints exactly what has changed: after it the    *)
(* viewer shows the new frame, its rectangles do not overlap, lie on the    *)
(* screen and are as wide as the runs of changed tiles, at any width and    *)
(* height, multiples of the tile or not (changed_rects).                    *)
Repaints(prev, cur, w, h, tile) ==
  LET rects == ChangedRects(prev, cur, w, h, tile)
  IN /\ ViewerPaints(prev, cur, rects) = cur
     /\ \A i \in DOMAIN rects :
          /\ Pixels(rects[i]) \subseteq ScreenOf(w, h)
          /\ \E p \in Pixels(rects[i]) : cur[p] # prev[p]
     /\ \A i, j \in DOMAIN rects : i < j =>
          /\ Pixels(rects[i]) \cap Pixels(rects[j]) = {}
          /\ rects[i].y = rects[j].y => rects[i].x + rects[i].w < rects[j].x

(* A viewer that negotiates a format sees each channel as near to the       *)
(* guest's colour as the format can tell, in either byte order, and its     *)
(* format survives the wire (encode_pixel, encode, parse, supported).       *)
SeesColour(pf, rgb) ==
  Sound(pf) /\ Supported(pf) =>
    LET bytes == EncodePixel(pf, rgb)
        seen  == ViewerDecodes(pf, bytes)
    IN /\ Len(bytes) * 8 = pf.bpp
       /\ ParseFormat(EncodeFormat(pf)) = pf
       /\ \A c \in Channels :
            LET off == 255 * seen[c] - rgb[c] * pf.max[c]
            IN 2 * off <= 255 /\ -2 * off <= 255
=============================================================================
