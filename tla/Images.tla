------------------------------- MODULE Images -------------------------------
(***************************************************************************)
(* Images in memory (rtextures.c): how they are made, cut, turned, drawn   *)
(* on and coloured, a definition for each function.                        *)
(*                                                                         *)
(* An image is [width, height, format, mipmaps, pixels]: pixels gives for  *)
(* each <<x, y>> of the base level what its format holds (Pixels).  The    *)
(* code returns at once from an image without pixels; such an image is not *)
(* a state here.  ImageResize is stb's filter: it is modelled only where   *)
(* the size stays, when it copies.                                         *)
(***************************************************************************)
EXTENDS Pixels, FiniteSets, SequencesExt

Area(width, height) == (0..width - 1) \X (0..height - 1)

ImageOf(width, height, format, pixels) ==
    [width |-> width, height |-> height, format |-> format, mipmaps |-> 1, pixels |-> pixels]

-----------------------------------------------------------------------------
(* Making images. *)

GenImageColor(width, height, color) ==
    ImageOf(width, height, "R8G8B8A8", [p \in Area(width, height) |-> color])

GenImageChecked(width, height, checksX, checksY, col1, col2) ==
    ImageOf(width, height, "R8G8B8A8",
            [p \in Area(width, height) |->
                IF ((p[1] \div checksX) + (p[2] \div checksY)) % 2 = 0 THEN col1 ELSE col2])

\* The share n/d of `end`, the rest of `start`.
Mixed(start, end, n, d) == [i \in 1..4 |-> (end[i] * n + start[i] * (d - n)) \div d]

\* density is in tenths.
GenImageGradientSquare(width, height, density, inner, outer) ==
    LET far(x, size) == IF 2 * x < size THEN size - 2 * x ELSE 2 * x - size
        shade(p) ==
          LET n == 10 * Greatest(far(p[1], width) * height, far(p[2], height) * width)
                     - density * width * height
              d == (10 - density) * width * height
          IN  Mixed(inner, outer, IF n < 0 THEN 0 ELSE Least(n, d), d)
    IN  ImageOf(width, height, "R8G8B8A8", [p \in Area(width, height) |-> shade(p)])

\* direction is in quarter turns: 0 is from the top to the bottom.
GenImageGradientLinear(width, height, direction, start, end) ==
    LET cosDir == CASE direction % 4 = 1 -> 1 [] direction % 4 = 3 -> -1 [] OTHER -> 0
        sinDir == CASE direction % 4 = 0 -> 1 [] direction % 4 = 2 -> -1 [] OTHER -> 0
        below == direction % 4 \in {2, 3}        \* the sign of the code's sine
        starting == 1 - cosDir * width - sinDir * height           \* twice as much
        distance(n) == IF n < 0 THEN -n ELSE n
        maxPos == IF below = (cosDir < 0) THEN distance(starting)
                  ELSE distance(starting + 2 * width * cosDir)
        shade(p) ==
          LET pos == starting + 2 * (p[1] * cosDir + p[2] * sinDir)
              held == IF pos > maxPos THEN maxPos ELSE IF pos < -maxPos THEN -maxPos ELSE pos
          IN  Mixed(start, end, held + maxPos, 2 * maxPos)
    IN  ImageOf(width, height, "R8G8B8A8", [p \in Area(width, height) |-> shade(p)])

ImageFromImage(image, rec) ==
    ImageOf(rec.width, rec.height, image.format,
            [p \in Area(rec.width, rec.height) |-> image.pixels[<<p[1] + rec.x, p[2] + rec.y>>]])

\* A channel of the image as grays; of a format without it, the code's choice.
ImageFromChannel(image, selectedChannel) ==
    LET one == {"GRAYSCALE", "R32"}
        three == {"R5G6B5", "R8G8B8", "R32G32B32"}
        channel == CASE selectedChannel < 0 \/ image.format \in one -> 0
                     [] image.format = "GRAY_ALPHA" /\ selectedChannel > 1 -> 1
                     [] image.format \in three /\ selectedChannel > 2 -> 0
                     [] OTHER -> Least(selectedChannel, 3)
        at == IF image.format = "GRAY_ALPHA" /\ channel = 1 THEN 4 ELSE channel + 1
    IN  ImageOf(image.width, image.height, "GRAYSCALE",
                [p \in DOMAIN image.pixels |->
                    <<Cut(LoadImageDataNormalized(image.format, image.pixels[p])[at], 255)>>])

GetImageColor(image, x, y) ==
    IF <<x, y>> \in DOMAIN image.pixels THEN ReadPixel(image.format, image.pixels[<<x, y>>])
    ELSE <<0, 0, 0, 0>>

LoadImageColors(image) == [p \in DOMAIN image.pixels |-> ReadPixel(image.format, image.pixels[p])]
-----------------------------------------------------------------------------
(* The levels of an image and the room that they take.                     *)

Halved(n) == Greatest(n \div 2, 1)

\* The sizes of the levels that follow a size, down to one pixel.
MipmapLevels(width, height) ==
    LET count == CHOOSE n \in 0..32 : 2 ^ n <= Greatest(width, height) /\ Greatest(width, height) < 2 ^ (n + 1)
        level[n \in 0..count] == IF n = 0 THEN <<width, height>>
                                 ELSE <<Halved(level[n - 1][1]), Halved(level[n - 1][2])>>
    IN  [n \in 1..count + 1 |-> level[n - 1]]

\* The bytes of the first `mipmaps` levels, as ImageCopy adds them up.
LevelsSize(image, mipmaps) ==
    LET level[n \in 1..mipmaps] == IF n = 1 THEN <<image.width, image.height>>
                                   ELSE <<Halved(level[n - 1][1]), Halved(level[n - 1][2])>>
    IN  FoldLeft(LAMBDA sum, l : sum + GetPixelDataSize(l[1], l[2], image.format), 0, level)

ImageMipmaps(image) ==
    LET levels == MipmapLevels(image.width, image.height)
    IN  IF image.mipmaps < Len(levels) THEN [image EXCEPT !.mipmaps = Len(levels)] ELSE image

ImageFormat(image, newFormat) ==
    LET changed ==
          [image EXCEPT !.format = newFormat,
                        !.pixels = [p \in DOMAIN @ |->
                            FromNormalized(newFormat, LoadImageDataNormalized(image.format, @[p]))]]
    IN  CASE image.format = newFormat -> image
          [] image.format # newFormat /\ image.mipmaps > 1 -> ImageMipmaps([changed EXCEPT !.mipmaps = 1])
          [] OTHER -> changed

\* What the colour operations end with: the colours, brought back to a format.
FromColors(image, colors, format) ==
    ImageFormat([image EXCEPT !.format = "R8G8B8A8", !.pixels = colors], format)
-----------------------------------------------------------------------------
(* Cutting and turning. *)

ImageCrop(image, crop) ==
    LET left == Greatest(crop.x, 0)
        top  == Greatest(crop.y, 0)
        width  == Least(crop.x + crop.width, image.width) - left
        height == Least(crop.y + crop.height, image.height) - top
    IN  IF left > image.width \/ top > image.height THEN image
        ELSE [image EXCEPT !.width = width, !.height = height,
                           !.pixels = [p \in Area(width, height) |-> @[<<p[1] + left, p[2] + top>>]]]

\* One more than the ratio of the sizes in 1/65536, so that the last pixel
\* is not cut off by rounding.
ImageResizeNN(image, newWidth, newHeight) ==
    LET xRatio == ((image.width * 65536) \div newWidth) + 1
        yRatio == ((image.height * 65536) \div newHeight) + 1
        colors == LoadImageColors(image)
        output == [p \in Area(newWidth, newHeight) |->
                     colors[<<(p[1] * xRatio) \div 65536, (p[2] * yRatio) \div 65536>>]]
    IN  FromColors([image EXCEPT !.width = newWidth, !.height = newHeight], output, image.format)

\* Seeded fault: the part left of the canvas not skipped.
CanvasFromTheLeft(image, newWidth, newHeight, offsetX, offsetY, fill) ==
    [image EXCEPT !.width = newWidth, !.height = newHeight,
        !.pixels = [p \in Area(newWidth, newHeight) |->
            IF <<p[1] - Greatest(offsetX, 0), p[2] - offsetY>> \in DOMAIN @
            THEN @[<<p[1] - Greatest(offsetX, 0), p[2] - offsetY>>]
            ELSE SetPixelColor(<<0, 0, 0, 0>>, fill, image.format)]]

\* The part of the image that is on the new canvas is copied row by row.
ImageResizeCanvas(image, newWidth, newHeight, offsetX, offsetY, fill) ==
    LET from(offset) == Greatest(-offset, 0)
        part(offset, size, newSize) ==
          Least(newSize, CASE offset < 0 -> size + offset
                           [] offset >= 0 /\ offset + size > newSize -> newSize - offset
                           [] OTHER -> size)
        columns == part(offsetX, image.width, newWidth)
        rows    == part(offsetY, image.height, newHeight)
        zero == [i \in 1..4 |-> 0]
        source(p) == <<p[1] - Greatest(offsetX, 0), p[2] - Greatest(offsetY, 0)>>
        cell(p, old) == IF source(p) \in Area(columns, rows)
                        THEN old[<<source(p)[1] + from(offsetX), source(p)[2] + from(offsetY)>>]
                        ELSE SetPixelColor(zero, fill, image.format)
    IN  IF newWidth = image.width /\ newHeight = image.height THEN image
        ELSE [image EXCEPT !.width = newWidth, !.height = newHeight,
                           !.pixels = [p \in Area(newWidth, newHeight) |-> cell(p, @)]]

PowerAbove(n) == CHOOSE m \in {2 ^ k : k \in 0..16} : m >= n /\ (m = 1 \/ m \div 2 < n)

ImageToPOT(image, fill) ==
    ImageResizeCanvas(image, PowerAbove(image.width), PowerAbove(image.height), 0, 0, fill)

\* The box of the pixels with more alpha than the threshold (of 255), or nothing.
GetImageAlphaBorder(image, threshold) ==
    LET seen == {p \in DOMAIN image.pixels : ReadPixel(image.format, image.pixels[p])[4] > threshold}
        xs == {p[1] : p \in seen}
        ys == {p[2] : p \in seen}
    IN  IF seen = {} THEN [x |-> 0, y |-> 0, width |-> 0, height |-> 0]
        ELSE [x |-> Min(xs), y |-> Min(ys),
              width |-> Max(xs) + 1 - Min(xs), height |-> Max(ys) + 1 - Min(ys)]

ImageAlphaCrop(image, threshold) ==
    LET crop == GetImageAlphaBorder(image, threshold)
    IN  IF crop.width # 0 /\ crop.height # 0 THEN ImageCrop(image, crop) ELSE image

ImageFlipVertical(image) ==
    [image EXCEPT !.pixels = [p \in DOMAIN @ |-> @[<<p[1], image.height - 1 - p[2]>>]]]

ImageFlipHorizontal(image) ==
    [image EXCEPT !.pixels = [p \in DOMAIN @ |-> @[<<image.width - 1 - p[1], p[2]>>]]]

\* Pixel (x, y) goes to column height - y - 1 of row x.
ImageRotateCW(image) ==
    [image EXCEPT !.width = image.height, !.height = image.width,
                  !.pixels = [p \in Area(image.height, image.width) |->
                                @[<<p[2], image.height - 1 - p[1]>>]]]

ImageRotateCCW(image) ==
    [image EXCEPT !.width = image.height, !.height = image.width,
                  !.pixels = [p \in Area(image.height, image.width) |->
                                @[<<image.width - 1 - p[2], p[1]>>]]]
-----------------------------------------------------------------------------
(* Colouring. *)

ImageColorTint(image, color) ==
    LET colors == LoadImageColors(image)
    IN  FromColors(image, [p \in DOMAIN colors |-> ColorTint(colors[p], color)], image.format)

Inverted(c) == <<255 - c[1], 255 - c[2], 255 - c[3], c[4]>>

ImageColorInvert(image) ==
    LET colors == LoadImageColors(image)
    IN  FromColors(image, [p \in DOMAIN colors |-> Inverted(colors[p])], image.format)

ImageColorGrayscale(image) == ImageFormat(image, "GRAYSCALE")

ImageColorContrast(image, contrast) ==
    LET colors == LoadImageColors(image)
    IN  FromColors(image, [p \in DOMAIN colors |-> ColorContrast(colors[p], contrast)], image.format)

\* A channel that would be negative becomes 1, one above 255 becomes 255.
ImageColorBrightness(image, brightness) ==
    LET b == Greatest(-255, Least(brightness, 255))
        lit(v) == IF v + b < 0 THEN 1 ELSE Least(v + b, 255)
        colors == LoadImageColors(image)
    IN  FromColors(image,
                   [p \in DOMAIN colors |->
                      <<lit(colors[p][1]), lit(colors[p][2]), lit(colors[p][3]), colors[p][4]>>],
                   image.format)

\* Only a format without alpha is brought back.
ImageColorReplace(image, color, replace) ==
    LET colors == LoadImageColors(image)
        back == {"R8G8B8", "R5G6B5", "GRAYSCALE", "R32G32B32"}
    IN  FromColors(image,
                   [p \in DOMAIN colors |-> IF colors[p] = color THEN replace ELSE colors[p]],
                   IF image.format \in back THEN image.format ELSE "R8G8B8A8")

ImageAlphaPremultiply(image) ==
    LET colors == LoadImageColors(image)
        times(c) == IF c[4] = 255 THEN c
                    ELSE <<(c[1] * c[4]) \div 255, (c[2] * c[4]) \div 255, (c[3] * c[4]) \div 255, c[4]>>
    IN  FromColors(image, [p \in DOMAIN colors |-> times(colors[p])], image.format)

\* The mask's grays become the image's alphas.
ImageAlphaMask(image, alphaMask) ==
    LET mask == ImageFormat(alphaMask, "GRAYSCALE")
        wide == ImageFormat(image, "R8G8B8A8")
    IN  IF image.width # mask.width \/ image.height # mask.height THEN image
        ELSE IF image.format = "GRAYSCALE"
        THEN [image EXCEPT !.format = "GRAY_ALPHA",
                           !.pixels = [p \in DOMAIN @ |-> @[p] \o mask.pixels[p]]]
        ELSE [wide EXCEPT !.pixels = [p \in DOMAIN @ |-> [@[p] EXCEPT ![4] = mask.pixels[p][1]]]]

\* The pixels with little alpha get a colour.  threshold is in tenths.  Of the
\* packed formats, where the code does not scale the colour, only black and
\* transparent is modelled: all bits 0.
ImageAlphaClear(image, color, threshold) ==
    LET bound == (255 * threshold) \div 10
        clear(raw) ==
          CASE image.format = "GRAY_ALPHA" ->
                 IF raw[2] <= bound THEN <<color[1], color[4]>> ELSE raw
            [] image.format = "R8G8B8A8" -> IF raw[4] <= bound THEN color ELSE raw
            [] image.format = "R32G32B32A32" ->
                 IF raw[4] * 10 <= threshold * White THEN ColorNormalize(color) ELSE raw
            [] image.format = "R5G5B5A1" ->
                 IF Bits(raw, 1, 2) <= (IF threshold < 5 THEN 0 ELSE 1) THEN 0 ELSE raw
            [] image.format = "R4G4B4A4" ->
                 IF Bits(raw, 1, 16) <= (15 * threshold) \div 10 THEN 0 ELSE raw
            [] OTHER -> raw
    IN  [image EXCEPT !.pixels = [p \in DOMAIN @ |-> clear(@[p])]]

\* The colours of an image that are seen, in the order of its rows, at most
\* maxPaletteSize; the blank cells of the palette count as blank colours.
LoadImagePalette(image, maxPaletteSize) ==
    LET row(i) == <<i % image.width, i \div image.width>>
        colors == [i \in 1..image.width * image.height |-> LoadImageColors(image)[row(i - 1)]]
        add(palette, c) == IF \/ c[4] = 0
                              \/ Len(palette) = maxPaletteSize
                              \/ c \in ToSet(palette)
                           THEN palette ELSE Append(palette, c)
    IN  FoldLeft(add, <<>>, colors)

\* The kernel, a square of factors in hundredths, around each pixel.  A
\* neighbour is found by its index alone: it is missing only before the first
\* and after the last pixel, so the rows go on in each other.
ImageKernelConvolution(image, kernel, kernelWidth) ==
    LET colors == LoadImageColors(image)
        size == image.width * image.height
        start == -Whole(kernelWidth, 2)
        steps == 0..kernelWidth - 1
        index(p, xk, yk) == image.width * (p[2] + xk + start) + p[1] + yk + start
        cell(i, c) == IF i \in 0..size - 1 THEN colors[<<i % image.width, i \div image.width>>][c] ELSE 0
        sum(p, c) == FoldFunctionOnSet(LAMBDA a, b : a + b, 0,
                        [k \in steps \X steps |-> cell(index(p, k[1], k[2]), c) * kernel[k]],
                        steps \X steps)
        held(n) == Greatest(0, Least(n, 25500)) \div 100
    IN  FromColors(image,
                   [p \in DOMAIN colors |->
                      <<held(sum(p, 1)), held(sum(p, 2)), held(sum(p, 3)), (sum(p, 4) \div 100) % 256>>],
                   image.format)

\* The sums of the window that slides over a line of n numbers, blurSize to
\* both sides, and how many numbers each sum is of.
Slide(line, n, blurSize) ==
    LET first == [sum |-> FoldLeft(LAMBDA a, i : a + line[i - 1], 0, [i \in 1..blurSize |-> i]),
                  size |-> blurSize]
        left(w, x) == IF x - blurSize - 1 >= 0
                      THEN [sum |-> w.sum - line[x - blurSize - 1], size |-> w.size - 1] ELSE w
        right(w, x) == IF x + blurSize < n
                       THEN [sum |-> w.sum + line[x + blurSize], size |-> w.size + 1] ELSE w
        at[x \in 0..n - 1] == right(left(IF x = 0 THEN first ELSE at[x - 1], x), x)
    IN  at

\* Rows, then columns, of the premultiplied colours, GAUSSIAN_BLUR_ITERATIONS
\* times; blurSize is at most the width and the height (the code sums up that
\* many before it looks for the end of the line).
ImageBlurGaussian(image, blurSize, iterations) ==
    LET soft == ImageAlphaPremultiply(image)
        rows == 0..image.height - 1
        columns == 0..image.width - 1
        along(c, y, i) == Slide([x \in columns |-> c[<<x, y>>][i]], image.width, blurSize)
        pass(c) ==
          LET row == [y \in rows |-> [i \in 1..4 |-> along(c, y, i)]]
              column == [x \in columns |-> [i \in 1..4 |->
                           Slide([y \in rows |-> row[y][i][x].sum], image.height, blurSize)]]
          IN  [p \in DOMAIN c |-> [i \in 1..4 |->
                 column[p[1]][i][p[2]].sum \div (column[p[1]][i][p[2]].size * row[p[2]][i][p[1]].size)]]
        blurred[n \in 0..iterations] == IF n = 0 THEN LoadImageColors(soft) ELSE pass(blurred[n - 1])
        split(c) == IF c[4] = 0 THEN <<0, 0, 0, 0>>
                    ELSE [i \in 1..4 |-> IF i = 4 THEN c[4] ELSE Least((c[i] * 255) \div c[4], 255)]
    IN  FromColors(soft, [p \in DOMAIN soft.pixels |-> split(blurred[iterations][p])], soft.format)

\* The bits of a format's red, green, blue and alpha that dithering keeps.
\* The error of each pixel goes to four that come after it, in sixteenths.
ImageDither(image, newFormat) ==
    LET bits == CASE newFormat = "R5G6B5" -> <<5, 6, 5, 0>>
                  [] newFormat = "R5G5B5A1" -> <<5, 5, 5, 1>>
                  [] newFormat = "R4G4B4A4" -> <<4, 4, 4, 4>>
        step(i) == 2 ^ (8 - bits[i])
        share(from, p) == CASE p = <<from[1] + 1, from[2]>>     -> 7
                            [] p = <<from[1] - 1, from[2] + 1>> -> 3
                            [] p = <<from[1], from[2] + 1>>     -> 5
                            [] p = <<from[1] + 1, from[2] + 1>> -> 1
                            [] OTHER -> 0
        spread(colors, p) ==
          [q \in DOMAIN colors |->
             IF q = p THEN [i \in 1..4 |-> colors[p][i] \div step(i)]
             ELSE IF share(p, q) = 0 THEN colors[q]
             ELSE [i \in 1..4 |->
                     IF i = 4 THEN colors[q][4]
                     ELSE Least(colors[q][i] + ((colors[p][i] % step(i)) * share(p, q)) \div 16, 255)]]
        order == [i \in 1..image.width * image.height |->
                    <<(i - 1) % image.width, (i - 1) \div image.width>>]
        kept == FoldLeft(spread, LoadImageColors(image), order)
        packed(c) == FoldLeft(LAMBDA n, i : n * 2 ^ bits[i] + c[i], 0, <<1, 2, 3, 4>>)
    IN  [image EXCEPT !.format = newFormat, !.pixels = [p \in DOMAIN kept |-> packed(kept[p])]]
-----------------------------------------------------------------------------
(* Drawing on an image.  What one colour draws is a set of pixels;           *)
(* ImageDrawPixel leaves out those that are not on the image.  Corners are   *)
(* whole numbers unless it is said.                                          *)

ImageDrawPixel(dst, points, color) ==
    [dst EXCEPT !.pixels = [p \in DOMAIN @ |-> IF p \in points THEN DrawnPixel(dst.format, color)
                                               ELSE @[p]]]

\* A position in halves is cast to a whole pixel.
ImageDrawPixelV(dst, position, color) ==
    ImageDrawPixel(dst, {<<Whole(position[1], 2), Whole(position[2], 2)>>}, color)

\* One pixel, then twice as many copied from those there are, up to the end.
ImageClearBackground(dst, color) ==
    LET total == dst.width * dst.height
        filled == FoldLeft(LAMBDA n, k : n + Least(n, total - n), 1, [k \in 1..total |-> k])
    IN  ImageDrawPixel(dst, {p \in DOMAIN dst.pixels : p[2] * dst.width + p[1] < filled}, color)

\* The pixels of dst that a rectangle fills: its first pixel is drawn before
\* its width and height are looked at.
ImageDrawRectangleRec(dst, rec) ==
    LET x == Greatest(rec.x, 0)
        y == Greatest(rec.y, 0)
        width  == Least(Greatest(rec.width + Least(rec.x, 0), 0), dst.width - x)
        height == Least(Greatest(rec.height + Least(rec.y, 0), 0), dst.height - y)
    IN  IF x >= dst.width \/ y >= dst.height \/ x + width <= 0 \/ y + height <= 0 THEN {}
        ELSE {p \in DOMAIN dst.pixels :
                /\ p[1] >= x /\ p[1] <= x + width - 1 /\ p[2] >= y /\ p[2] <= y + height - 1}
             \cup {<<x, y>>}
             \cup {<<i, y>> : i \in x..x + width - 1}

ImageDrawRectangle(dst, posX, posY, width, height) ==
    ImageDrawRectangleRec(dst, [x |-> posX, y |-> posY, width |-> width, height |-> height])

ImageDrawRectangleLines(dst, rec, thick) ==
    UNION {ImageDrawRectangle(dst, rec.x, rec.y, rec.width, thick),
           ImageDrawRectangle(dst, rec.x, rec.y + thick, thick, rec.height - thick * 2),
           ImageDrawRectangle(dst, rec.x + rec.width - thick, rec.y + thick, thick,
                              rec.height - thick * 2),
           ImageDrawRectangle(dst, rec.x, rec.y + rec.height - thick, rec.width, thick)}

\* The pixels of a line, without its end: one for each step along the longer
\* side, the other moves on by 65536ths.
ImageDrawLine(start, end) ==
    LET dx == end[1] - start[1]
        dy == end[2] - start[2]
        yLonger == Abs(dy) > Abs(dx)
        long  == IF yLonger THEN dy ELSE dx
        short == IF yLonger THEN dx ELSE dy
        sgnInc == IF long < 0 THEN -1 ELSE 1
        decInc == IF long = 0 THEN 0 ELSE Whole(short * 65536, Abs(long))
        beside(k) == (k * decInc) \div 65536
    IN  {IF yLonger THEN <<start[1] + beside(k), start[2] + k * sgnInc>>
         ELSE <<start[1] + k * sgnInc, start[2] + beside(k)>> : k \in 0..Abs(long) - 1}

\* Corners in halves, rounded up.
Nearest(v) == <<Whole(v[1] + 1, 2), Whole(v[2] + 1, 2)>>

ImageDrawLineV(start, end) == ImageDrawLine(Nearest(start), Nearest(end))

\* As many lines beside each other as the line is thick.
ImageDrawLineEx(start, end, thick) ==
    LET a == Nearest(start)
        b == Nearest(end)
        dx == b[1] - a[1]
        dy == b[2] - a[2]
        flat == Abs(dy) < Abs(dx)
        beside == -((thick - 1) \div 2)..(thick \div 2)
    IN  IF flat
        THEN UNION {ImageDrawLine(<<a[1], a[2] + i>>, <<b[1], b[2] + i>>) : i \in beside}
        ELSE UNION {ImageDrawLine(<<a[1] + i, a[2]>>, <<b[1] + i, b[2]>>) : i \in beside}

\* The steps of the circle's eighth: x and y until they meet.
Eighth(radius) ==
    LET step[n \in 0..radius] ==
          IF n = 0 THEN [x |-> 0, y |-> radius, decision |-> 3 - 2 * radius]
          ELSE LET s == step[n - 1]
               IN  IF s.decision > 0
                   THEN [x |-> s.x + 1, y |-> s.y - 1,
                         decision |-> s.decision + 4 * ((s.x + 1) - (s.y - 1)) + 10]
                   ELSE [x |-> s.x + 1, y |-> s.y, decision |-> s.decision + 4 * (s.x + 1) + 6]
    IN  {<<step[n].x, step[n].y>> : n \in {m \in 0..radius : step[m].y >= step[m].x}}

ImageDrawCircle(dst, center, radius) ==
    UNION {UNION {ImageDrawRectangle(dst, center[1] - e[1], center[2] + s * e[2], e[1] * 2, 1)
                    \cup ImageDrawRectangle(dst, center[1] - e[2], center[2] + s * e[1], e[2] * 2, 1) :
                  s \in {-1, 1}} :
           e \in Eighth(radius)}

ImageDrawCircleLines(center, radius) ==
    UNION {{<<center[1] + s * e[1], center[2] + t * e[2]>>, <<center[1] + s * e[2], center[2] + t * e[1]>>} :
           s \in {-1, 1}, t \in {-1, 1}, e \in Eighth(radius)}

\* The box of a triangle that is on the image, and the weight of each of its
\* corners at a pixel: three sums that go on by a step for each x and each y.
TriangleBox(dst, v) ==
    LET xs == {v[1][1], v[2][1], v[3][1]}
        ys == {v[1][2], v[2][2], v[3][2]}
    IN  (Greatest(Min(xs), 0)..Least(Max(xs), dst.width)) \X (Greatest(Min(ys), 0)..Least(Max(ys), dst.height))

TriangleWeights(v, p) ==
    LET area == (v[2][1] - v[1][1]) * (v[3][2] - v[1][2]) - (v[3][1] - v[1][1]) * (v[2][2] - v[1][2])
        sign == IF area > 0 THEN -1 ELSE 1
        weight(a, b) == sign * ((p[1] - a[1]) * (b[2] - a[2]) + (a[1] - b[1]) * (p[2] - a[2]))
    IN  <<weight(v[2], v[3]), weight(v[3], v[1]), weight(v[1], v[2])>>

ImageDrawTriangle(dst, v) ==
    {p \in TriangleBox(dst, v) : \A i \in 1..3 : TriangleWeights(v, p)[i] >= 0}

\* A colour for each corner.  The shares are bytes, cut, of the sum of the
\* weights, which is the same at every pixel.
ImageDrawTriangleEx(dst, v, colors) ==
    LET shade(p) ==
          LET w == TriangleWeights(v, p)
              sum == w[1] + w[2] + w[3]
              share == [i \in 1..3 |-> (w[i] * 255) \div sum]
          IN  [c \in 1..4 |-> (colors[1][c] * share[1] + colors[2][c] * share[2]
                                 + colors[3][c] * share[3]) \div 255]
    IN  [dst EXCEPT !.pixels = [p \in DOMAIN @ |->
            IF p \in ImageDrawTriangle(dst, v) THEN DrawnPixel(dst.format, shade(p)) ELSE @[p]]]

ImageDrawTriangleLines(v) ==
    UNION {ImageDrawLine(v[1], v[2]), ImageDrawLine(v[2], v[3]), ImageDrawLine(v[3], v[1])}

ImageDrawTriangleFan(dst, points) ==
    UNION {ImageDrawTriangle(dst, <<points[1], points[i], points[i + 1]>>) : i \in 2..Len(points) - 1}

ImageDrawTriangleStrip(dst, points) ==
    UNION {ImageDrawTriangle(dst, IF i % 2 = 1 THEN <<points[i], points[i - 2], points[i - 1]>>
                                  ELSE <<points[i], points[i - 1], points[i - 2]>>) : i \in 3..Len(points)}

\* Seeded fault: a picture that starts left of the image is only cut there.
CutOnOneSide(at, from, size, room) ==
    IF at < 0 THEN [at |-> 0, from |-> from - at, size |-> size + at]
    ELSE [at |-> at, from |-> from, size |-> IF at + size > room THEN room - at ELSE size]

\* Along one side: what starts before the image loses its beginning, what
\* ends behind it its end, and nothing is more than the image holds.
Clipped(at, from, size, room) ==
    LET s == CASE at < 0 -> [at |-> 0, from |-> from - at, size |-> size + at]
               [] at >= 0 /\ at + size > room -> [at |-> at, from |-> from, size |-> room - at]
               [] OTHER -> [at |-> at, from |-> from, size |-> size]
    IN  [s EXCEPT !.size = Least(@, room)]

\* The part of a rectangle of the source that is on the source.
OnSource(from, size, room) ==
    LET first == Greatest(from, 0)
    IN  [from |-> first, size |-> Least(size + Least(from, 0), room - first)]

\* A part of src on dst, mixed with what is there: the tint is only used
\* when it is not opaque or the source has alpha.  The source's part has the
\* size of dstRec (else the code resizes it first, with stb's filter).
ImageDraw(dst, src, srcRec, dstRec, tint) ==
    LET sx == OnSource(srcRec.x, srcRec.width, src.width)
        sy == OnSource(srcRec.y, srcRec.height, src.height)
        cx == Clipped(dstRec.x, sx.from, sx.size, dst.width)
        cy == Clipped(dstRec.y, sy.from, sy.size, dst.height)
        blendRequired == ~(tint[4] = 255 /\ src.format \in WithoutAlpha)
        source(p) == src.pixels[<<p[1] - cx.at + cx.from, p[2] - cy.at + cy.from>>]
        put(p, old) ==
          LET colSrc == GetPixelColor(source(p), src.format)
              colDst == GetPixelColor(old, dst.format)
          IN  IF ~blendRequired /\ src.format = dst.format THEN source(p)
              ELSE SetPixelColor(old, IF blendRequired THEN ColorAlphaBlend(colDst, colSrc, tint)
                                      ELSE colSrc, dst.format)
    IN  [dst EXCEPT !.pixels = [p \in DOMAIN @ |->
            IF p[1] \in cx.at..cx.at + cx.size - 1 /\ p[2] \in cy.at..cy.at + cy.size - 1
            THEN put(p, @[p]) ELSE @[p]]]
=============================================================================
