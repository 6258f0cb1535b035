------------------------------- MODULE Pixels -------------------------------
(***************************************************************************)
(* Colours and the formats that images keep their pixels in (rtextures.c). *)
(*                                                                         *)
(* A colour is <<r, g, b, a>>, each 0..255.  A raw pixel is what an image  *)
(* holds: the channels of a format with a byte or a float for each, or the *)
(* 16 bits of a packed one.  A normalised channel, a float from 0 to 1 in  *)
(* the code, is counted in units of 1/White, which holds the quarters,     *)
(* fifths, sixths and bytes of all formats; the rounding of floats is not  *)
(* modelled (it takes 1 from 11 of the 256 grays), and neither are the     *)
(* formats of half floats.                                                 *)
(***************************************************************************)
EXTENDS Numbers, Sequences

White == 166005     \* lcm of 15, 31, 63 and 255

Packed  == {"R5G6B5", "R5G5B5A1", "R4G4B4A4"}
Floats  == {"R32", "R32G32B32", "R32G32B32A32"}
Formats == {"GRAYSCALE", "GRAY_ALPHA", "R8G8B8", "R8G8B8A8"} \cup Packed \cup Floats
WithoutAlpha == {"GRAYSCALE", "R5G6B5", "R8G8B8", "R32", "R32G32B32"}

\* The bits of raw from bit `low`, as many as make 2^k = size.
Bits(raw, low, size) == (raw \div low) % size

\* Rounded to the next whole number, and cut, of n/White times k.
Rounded(n, k) == (2 * n * k + White) \div (2 * White)
Cut(n, k)     == (n * k) \div White
Byte(n)       == n % 256                     \* (unsigned char)

Gray(c) == (299 * c[1] + 587 * c[2] + 114 * c[3]) \div 1000

\* The alpha of a format of one bit.
AlphaThreshold == 50
OneBit(alpha) == IF alpha * 255 > AlphaThreshold * White THEN 1 ELSE 0

ColorNormalize(c) == [i \in 1..4 |-> c[i] * (White \div 255)]
ColorFromNormalized(n) == [i \in 1..4 |-> Cut(n[i], 255)]
-----------------------------------------------------------------------------
(* The five translations between raw pixels and colours: the code has one  *)
(* switch over the formats for each.                                       *)

LoadImageDataNormalized(format, raw) ==
    LET byte(i) == raw[i] * (White \div 255)
        five(low) == Bits(raw, low, 32) * (White \div 31)
        four(low) == Bits(raw, low, 16) * (White \div 15)
    IN  CASE format = "GRAYSCALE"    -> <<byte(1), byte(1), byte(1), White>>
          [] format = "GRAY_ALPHA"   -> <<byte(1), byte(1), byte(1), byte(2)>>
          [] format = "R8G8B8"       -> <<byte(1), byte(2), byte(3), White>>
          [] format = "R8G8B8A8"     -> <<byte(1), byte(2), byte(3), byte(4)>>
          [] format = "R5G6B5"       ->
               <<five(2048), Bits(raw, 32, 64) * (White \div 63), five(1), White>>
          [] format = "R5G5B5A1"     ->
               <<five(2048), five(64), five(2), Bits(raw, 1, 2) * White>>
          [] format = "R4G4B4A4"     -> <<four(4096), four(256), four(16), four(1)>>
          [] format = "R32"          -> <<raw[1], 0, 0, White>>
          [] format = "R32G32B32"    -> Append(raw, White)
          [] format = "R32G32B32A32" -> raw

\* The pixel of a normalised one, in each format.
FromNormalized(format, n) ==
    CASE format = "GRAYSCALE"    -> <<Cut(Gray(n), 255)>>
      [] format = "GRAY_ALPHA"   -> <<Cut(Gray(n), 255), Cut(n[4], 255)>>
      [] format = "R8G8B8"       -> <<Cut(n[1], 255), Cut(n[2], 255), Cut(n[3], 255)>>
      [] format = "R8G8B8A8"     -> ColorFromNormalized(n)
      [] format = "R5G6B5"       ->
           Rounded(n[1], 31) * 2048 + Rounded(n[2], 63) * 32 + Rounded(n[3], 31)
      [] format = "R5G5B5A1"     ->
           Rounded(n[1], 31) * 2048 + Rounded(n[2], 31) * 64 + Rounded(n[3], 31) * 2 + OneBit(n[4])
      [] format = "R4G4B4A4"     ->
           Rounded(n[1], 15) * 4096 + Rounded(n[2], 15) * 256 + Rounded(n[3], 15) * 16
             + Rounded(n[4], 15)
      [] format = "R32"          -> <<Gray(n)>>
      [] format = "R32G32B32"    -> <<n[1], n[2], n[3]>>
      [] format = "R32G32B32A32" -> n

\* What ImageDrawPixel stores of a colour: bytes as they are.
DrawnPixel(format, color) ==
    CASE format = "GRAY_ALPHA" -> <<Cut(Gray(ColorNormalize(color)), 255), color[4]>>
      [] format = "R8G8B8"     -> <<color[1], color[2], color[3]>>
      [] format = "R8G8B8A8"   -> color
      [] OTHER                 -> FromNormalized(format, ColorNormalize(color))

\* SetPixelColor leaves a pixel of floats as it was.
SetPixelColor(old, color, format) ==
    IF format \in Floats THEN old ELSE DrawnPixel(format, color)

\* What GetImageColor and LoadImageColors read; 255/31 is 8 there, 255/63 is 4.
ReadPixel(format, raw) ==
    CASE format = "GRAYSCALE"  -> <<raw[1], raw[1], raw[1], 255>>
      [] format = "GRAY_ALPHA" -> <<raw[1], raw[1], raw[1], raw[2]>>
      [] format = "R8G8B8"     -> Append(raw, 255)
      [] format = "R8G8B8A8"   -> raw
      [] format = "R5G6B5"     ->
           <<Bits(raw, 2048, 32) * 8, Bits(raw, 32, 64) * 4, Bits(raw, 1, 32) * 8, 255>>
      [] format = "R5G5B5A1"   ->
           <<Bits(raw, 2048, 32) * 8, Bits(raw, 64, 32) * 8, Bits(raw, 2, 32) * 8,
             Bits(raw, 1, 2) * 255>>
      [] format = "R4G4B4A4"   ->
           <<Bits(raw, 4096, 16) * 17, Bits(raw, 256, 16) * 17, Bits(raw, 16, 16) * 17,
             Bits(raw, 1, 16) * 17>>
      [] OTHER                 -> ColorFromNormalized(LoadImageDataNormalized(format, raw))

\* What GetPixelColor reads.  The blue of R5G5B5A1 is the last five bits.
GetPixelColor(raw, format) ==
    CASE format = "R5G6B5"   ->
           <<(Bits(raw, 2048, 32) * 255) \div 31, (Bits(raw, 32, 64) * 255) \div 63,
             (Bits(raw, 1, 32) * 255) \div 31, 255>>
      [] format = "R5G5B5A1" ->
           <<(Bits(raw, 2048, 32) * 255) \div 31, (Bits(raw, 64, 32) * 255) \div 31,
             (Bits(raw, 1, 32) * 255) \div 31, Bits(raw, 1, 2) * 255>>
      [] format = "R32"      -> LET v == Cut(raw[1], 255) IN <<v, v, v, 255>>
      [] OTHER               -> ReadPixel(format, raw)

GetPixelDataSize(width, height, format) ==
    width * height *
      (CASE format = "GRAYSCALE" -> 1
         [] format \in Packed \cup {"GRAY_ALPHA"} -> 2
         [] format = "R8G8B8" -> 3
         [] format \in {"R8G8B8A8", "R32"} -> 4
         [] format = "R32G32B32" -> 12
         [] format = "R32G32B32A32" -> 16)
-----------------------------------------------------------------------------
(* Colours. *)

ColorIsEqual(c, d) == c = d
ColorTint(color, tint) == [i \in 1..4 |-> (color[i] * tint[i]) \div 255]
ColorToInt(c) == <<c[1] * 256 + c[2], c[3] * 256 + c[4]>>   \* the two halves of the 32 bits
GetColor(hex) == <<hex[1] \div 256, hex[1] % 256, hex[2] \div 256, hex[2] % 256>>

\* percent stands for a factor from -1 to 1 (or 0 to 1), in hundredths.
Held(percent, low) == IF percent < low THEN low ELSE IF percent > 100 THEN 100 ELSE percent

Fade(color, percent) == [color EXCEPT ![4] = (255 * Held(percent, 0)) \div 100]
ColorAlpha(color, percent) == Fade(color, percent)

ColorLerp(c, d, percent) ==
    [i \in 1..4 |-> ((100 - Held(percent, 0)) * c[i] + Held(percent, 0) * d[i]) \div 100]

ColorBrightness(color, percent) ==
    LET f == Held(percent, -100)
        lit(v) == IF f < 0 THEN (v * (100 + f)) \div 100 ELSE ((255 - v) * f + v * 100) \div 100
    IN  <<lit(color[1]), lit(color[2]), lit(color[3]), color[4]>>

\* (v/255 - 1/2) * k + 1/2, times 255, held between 0 and 255.
ColorContrast(color, percent) ==
    LET f == Held(percent, -100)
        k == (100 + f) * (100 + f)
        spread(v) == LET n == (2 * v - 255) * k + 255 * 10000
                     IN  IF n < 0 THEN 0 ELSE IF n > 510 * 10000 THEN 255 ELSE n \div 20000
    IN  <<spread(color[1]), spread(color[2]), spread(color[3]), color[4]>>

\* Hue in sixths of the circle times delta, saturation and value: the three
\* with what they are to be divided by, 1 when delta is 0.
ColorToHSV(color) ==
    LET r == color[1]
        g == color[2]
        b == color[3]
        least(x, y) == IF x < y THEN x ELSE y
        most(x, y) == IF x > y THEN x ELSE y
        min == least(least(r, g), b)
        max == most(most(r, g), b)
        delta == max - min
        hue == CASE r >= max -> g - b
                 [] r < max /\ g >= max -> 2 * delta + (b - r)
                 [] OTHER -> 4 * delta + (r - g)
    IN  IF delta = 0 THEN [hue |-> 0, over |-> 1, saturation |-> <<0, 1>>, value |-> max]
        ELSE [hue |-> IF hue < 0 THEN hue + 6 * delta ELSE hue, over |-> delta,
              saturation |-> <<delta, max>>, value |-> max]

\* From the hue hue/over, in sixths of the circle.
ColorFromHSV(hue, over, saturation, value) ==
    LET channel(n) ==
          LET k == (n * over + hue) % (6 * over)
              t == 4 * over - k
              m == IF t < k THEN t ELSE k
              c == IF m > over THEN over ELSE IF m < 0 THEN 0 ELSE m
          IN  (value * (saturation[2] * over - saturation[1] * c)) \div (saturation[2] * over)
    IN  <<channel(5), channel(3), channel(1), 255>>

ColorAlphaBlend(dst, src, tint) ==
    LET s == [i \in 1..4 |-> (src[i] * (tint[i] + 1)) \div 256]
        alpha == s[4] + 1
        a == Byte((alpha * 256 + dst[4] * (256 - alpha)) \div 256)
        mixed(i) == Byte(((s[i] * alpha * 256 + dst[i] * dst[4] * (256 - alpha)) \div a) \div 256)
    IN  CASE s[4] = 0   -> dst
          [] s[4] = 255 -> s
          [] OTHER      -> IF a > 0 THEN <<mixed(1), mixed(2), mixed(3), a>>
                           ELSE <<255, 255, 255, a>>
=============================================================================
