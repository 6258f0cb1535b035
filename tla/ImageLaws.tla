------------------------------ MODULE ImageLaws ------------------------------
(* Questions about images and colours, and what their answers have to be.   *)
EXTENDS Images

CONSTANTS
    Colors,         \* <<r, g, b, a>>
    Pictures,       \* images
    Drawings,       \* what is drawn: records with a kind
    Margin          \* the room around an image in which shapes are drawn too

VARIABLE asked

AskColors ==
    \E c \in Colors, d \in Colors, format \in Formats :
        asked' = [kind |-> "colors", c |-> c, d |-> d, format |-> format]

AskPictures ==
    \E image \in Pictures : asked' = [kind |-> "picture", image |-> image]

AskDrawing ==
    \E image \in Pictures, shape \in Drawings :
        asked' = [kind |-> "drawing", image |-> image, shape |-> shape]
-----------------------------------------------------------------------------
Near(c, d, most) == \A i \in 1..4 : Abs(c[i] - d[i]) <= most

(* A colour survives what is done with it: all ways to store it in a format *)
(* store the same, what is stored is stored again when it is read, and its  *)
(* other forms (32 bits, floats, hue) give it back.  rtextures.c has six    *)
(* switches over the formats, each with its own shifts and factors.         *)
ColorsSurvive ==
    asked.kind = "colors" =>
        LET c == asked.c
            d == asked.d
            f == asked.format
            raw == FromNormalized(f, ColorNormalize(c))
            hsv == ColorToHSV(c)
        IN  /\ DrawnPixel(f, c) = raw
            /\ SetPixelColor(raw, c, f) = raw
            /\ f # "R32" => FromNormalized(f, LoadImageDataNormalized(f, raw)) = raw
            /\ f \in {"R8G8B8", "R8G8B8A8", "R5G6B5", "R4G4B4A4", "R32G32B32", "R32G32B32A32"} =>
                 Near(GetPixelColor(raw, f), IF f \in WithoutAlpha THEN [c EXCEPT ![4] = 255] ELSE c,
                      IF f \in Packed THEN 8 ELSE 0)
            /\ GetColor(ColorToInt(c)) = c
            /\ ColorFromNormalized(ColorNormalize(c)) = c
            /\ LET b == ColorFromHSV(hsv.hue, hsv.over, IF hsv.value = 0 THEN <<0, 1>> ELSE hsv.saturation,
                                     hsv.value)
               IN  Near(b, [c EXCEPT ![4] = 255], 0)
            /\ ColorTint(c, <<255, 255, 255, 255>>) = c
            /\ ColorLerp(c, d, 0) = c /\ ColorLerp(c, d, 100) = d
            /\ \A k \in {20, 50} : \A i \in 1..4 :
                 ColorLerp(c, d, k)[i] \in Least(c[i], d[i])..Greatest(c[i], d[i])
            /\ ColorBrightness(c, 0) = c /\ ColorContrast(c, 0) = c
            /\ ColorIsEqual(c, d) = (ColorToInt(c) = ColorToInt(d))
            /\ Fade(c, 100) = [c EXCEPT ![4] = 255] /\ ColorAlpha(c, -20)[4] = 0
            /\ ColorAlphaBlend(d, [c EXCEPT ![4] = 0], <<255, 255, 255, 255>>) = d
            /\ ColorAlphaBlend(d, [c EXCEPT ![4] = 255], <<255, 255, 255, 255>>) = [c EXCEPT ![4] = 255]

(* A picture that is turned, mirrored, cut or put on a larger canvas keeps  *)
(* its pixels: turns and mirrors undo each other, each pixel of the canvas  *)
(* is the picture's or the fill, wherever the picture is put, and a border  *)
(* that is cut off holds nothing that is seen.                              *)
PicturesKeepTheirPixels ==
    asked.kind = "picture" =>
        LET image == asked.image
            fill == <<17, 34, 51, 255>>
            filler == SetPixelColor(<<0, 0, 0, 0>>, fill, image.format)
            cell(p) == IF p \in DOMAIN image.pixels THEN image.pixels[p] ELSE filler
            border == GetImageAlphaBorder(image, 100)
            cut == ImageAlphaCrop(image, 100)
            palette == LoadImagePalette(image, 2)
        IN  /\ ImageRotateCCW(ImageRotateCW(image)) = image
            /\ ImageRotateCW(ImageRotateCW(image)) = ImageFlipVertical(ImageFlipHorizontal(image))
            /\ ImageRotateCW(ImageFlipHorizontal(image)) = ImageFlipVertical(ImageRotateCW(image))
            /\ \A x, y \in -2..2, w, h \in {2, 5} :
                 <<w, h>> # <<image.width, image.height>> =>
                 ImageResizeCanvas(image, w, h, x, y, fill).pixels
                   = [p \in Area(w, h) |-> cell(<<p[1] - x, p[2] - y>>)]
            /\ ImageCrop(ImageToPOT(image, fill),
                         [x |-> 0, y |-> 0, width |-> image.width, height |-> image.height]) = image
            /\ \A w, h \in {1, 3, 6} :
                 LET resized == ImageResizeNN(image, w, h)
                 IN  \A p \in Area(w, h) :
                        LET q == <<(p[1] * image.width) \div w, (p[2] * image.height) \div h>>
                        IN  resized.pixels[p] =
                              FromNormalized(image.format, ColorNormalize(LoadImageColors(image)[q]))
            /\ border.width > 0 =>
                 /\ GetImageAlphaBorder(cut, 100)
                      = [x |-> 0, y |-> 0, width |-> cut.width, height |-> cut.height]
                 /\ \A p \in DOMAIN image.pixels :
                      LoadImageColors(image)[p][4] > 100 =>
                        image.pixels[p] = cut.pixels[<<p[1] - border.x, p[2] - border.y>>]
            /\ Cardinality(ToSet(palette)) = Len(palette)
            /\ Len(palette) < 2 => {c \in ToSet([i \in 1..image.width * image.height |->
                    LoadImageColors(image)[<<(i - 1) % image.width, (i - 1) \div image.width>>]]) :
                    c[4] > 0} \subseteq ToSet(palette)
            /\ LET whole == ImageMipmaps(image)
               IN  LevelsSize(image, whole.mipmaps)
                     = FoldLeft(LAMBDA sum, l : sum + GetPixelDataSize(l[1], l[2], image.format), 0,
                                MipmapLevels(image.width, image.height))
            /\ image.format = "R8G8B8A8" =>
                 /\ ImageColorInvert(ImageColorInvert(image)) = image
                 /\ ImageKernelConvolution(image, [k \in (0..2) \X (0..2) |-> IF k = <<1, 1>> THEN 100 ELSE 0],
                                           3) = image
                 /\ ImageColorTint(image, <<255, 255, 255, 255>>) = image

\* The means of the pixels that are at most r away along each side, twice.
Mean(line, n, r) ==
    [x \in 0..n - 1 |->
       LET near == {y \in 0..n - 1 : Abs(x - y) <= r}
       IN  [sum |-> FoldFunctionOnSet(LAMBDA a, b : a + b, 0, line, near), size |-> Cardinality(near)]]

(* The window that slides over a line holds the pixels at most blurSize     *)
(* away, at the line's ends too; a blurred picture of one colour stays as   *)
(* it is, and dithering loses less than a step of the format.               *)
BlurIsAMean ==
    asked.kind = "picture" =>
        LET image == asked.image
            line == [x \in 0..image.width - 1 |-> LoadImageColors(image)[<<x, 0>>][1]]
            flat == GenImageColor(image.width, image.height, <<160, 80, 40, 255>>)
        IN  /\ \A r \in 1..image.width : Slide(line, image.width, r) = Mean(line, image.width, r)
            /\ \A r \in 1..Least(image.width, image.height) : ImageBlurGaussian(flat, r, 2) = flat
            /\ \A f \in Packed :
                 LET d == ImageDither(ImageFormat(image, "R8G8B8A8"), f)
                     was == LoadImageColors(image)
                 IN  \A p \in DOMAIN d.pixels : \A i \in 1..3 :
                        Abs(ReadPixel(f, d.pixels[p])[i] - was[p][i]) <= 32

\* Every channel of every pixel lies between two colours.
Between(image, c, d) ==
    \A p \in DOMAIN image.pixels, i \in 1..4 :
        image.pixels[p][i] \in Least(c[i], d[i])..Greatest(c[i], d[i])

(* What is made or coloured holds what was asked: a gradient starts and     *)
(* ends with its colours and stays between them, squares of a checked       *)
(* picture alternate, a channel taken out and put back as a mask leaves the *)
(* picture as it was, a colour replaced is gone and nothing else changed,   *)
(* and what is cleared for its low alpha was not seen before.               *)
ColoursAreAsAsked ==
    asked.kind = "picture" =>
        LET image == asked.image
            colors == LoadImageColors(image)
            rec == [x |-> image.width \div 2, y |-> 0,
                    width |-> image.width - (image.width \div 2), height |-> image.height]
            here == colors[<<0, image.height - 1>>]
            other == <<1, 2, 3, 255>>
            start == <<200, 100, 40, 255>>
            end == <<8, 16, 247, 51>>
            last == <<image.width - 1, image.height - 1>>
            checked == GenImageChecked(image.width, image.height, 2, 1, start, end)
            square == GenImageGradientSquare(image.width, image.height, 3, start, end)
            gray == ImageColorGrayscale(image)
        IN  /\ \A p \in DOMAIN checked.pixels : \A q \in {<<p[1] + 2, p[2]>>, <<p[1], p[2] + 1>>} :
                 q \in DOMAIN checked.pixels => checked.pixels[p] # checked.pixels[q]
            /\ square.pixels[<<0, 0>>] = end /\ Between(square, start, end)
            /\ image.width > 1 /\ image.height > 1 => \A direction \in 0..3 :
                 LET linear == GenImageGradientLinear(image.width, image.height, direction, start, end)
                 IN  Between(linear, start, end)
            /\ image.width > 1 /\ image.height > 1 =>
                 LET linear == GenImageGradientLinear(image.width, image.height, 0, start, end)
                 IN  linear.pixels[<<0, 0>>] = start /\ linear.pixels[last] = end
            /\ image.width > 1 /\ image.height > 1 =>
                 LET linear == GenImageGradientLinear(image.width, image.height, 1, start, end)
                 IN  linear.pixels[<<0, 0>>] = start /\ linear.pixels[last] = end
            /\ ImageFromImage(image, rec) = ImageCrop(image, rec)
            /\ \A x \in -1..image.width, y \in -1..image.height :
                 GetImageColor(image, x, y) = IF <<x, y>> \in DOMAIN colors THEN colors[<<x, y>>]
                                              ELSE <<0, 0, 0, 0>>
            /\ ImageColorGrayscale(gray) = gray /\ ImageFromChannel(gray, 2) = gray
            /\ image.format = "R8G8B8A8" =>
                 /\ ImageAlphaMask(image, ImageFromChannel(image, 3)) = image
                 /\ ImageColorContrast(image, 0) = image /\ ImageColorBrightness(image, 0) = image
                 /\ \A p \in DOMAIN colors :
                      LET lit == ImageColorBrightness(image, 90).pixels[p]
                      IN  \A i \in 1..3 : lit[i] = Least(colors[p][i] + 90, 255)
            /\ LET replaced == ImageColorReplace(image, here, other)
                   was == LoadImageColors(image)
                   now == LoadImageColors(replaced)
               IN  /\ image.format \in {"R8G8B8A8", "R8G8B8"} =>
                        \A p \in DOMAIN was : now[p] = IF was[p] = here THEN other ELSE was[p]
                   /\ replaced.width = image.width /\ replaced.height = image.height
            /\ GetImageAlphaBorder(ImageAlphaClear(image, <<0, 0, 0, 0>>, 4), 102)
                 = GetImageAlphaBorder(image, 102)

(* Colours and pictures come back from what was done to them: formats give  *)
(* their own colours back, and the operations that only move pixels lose    *)
(* none and make up none.                                                   *)
PicturesSurvive == ColorsSurvive /\ PicturesKeepTheirPixels /\ BlurIsAMean /\ ColoursAreAsAsked

\* A shape and its image with it, moved.
Moved(at, by) == <<at[1] + by, at[2] + by>>

Draw(dst, shape, by) ==
    LET at == [i \in DOMAIN shape.at |-> Moved(shape.at[i], by)]
        color == shape.color
        size == shape.size
    IN  CASE shape.kind = "rectangle" ->
               ImageDrawPixel(dst, ImageDrawRectangle(dst, at[1][1], at[1][2], size[1], size[2]), color)
          [] shape.kind = "frame" ->
               ImageDrawPixel(dst, ImageDrawRectangleLines(dst,
                   [x |-> at[1][1], y |-> at[1][2], width |-> size[1], height |-> size[2]], 1), color)
          [] shape.kind = "line" -> ImageDrawPixel(dst, ImageDrawLine(at[1], at[2]), color)
          [] shape.kind = "circle" -> ImageDrawPixel(dst, ImageDrawCircle(dst, at[1], size[1]), color)
          [] shape.kind = "ring" -> ImageDrawPixel(dst, ImageDrawCircleLines(at[1], size[1]), color)
          [] shape.kind = "triangle" -> ImageDrawPixel(dst, ImageDrawTriangle(dst, at), color)
          [] shape.kind = "shades" ->
               ImageDrawTriangleEx(dst, at, <<color, <<0, 0, 0, 255>>, <<255, 255, 255, 255>> >>)
          [] shape.kind = "picture" ->
               ImageDraw(dst, shape.image, [x |-> 0, y |-> 0, width |-> size[1], height |-> size[2]],
                         [x |-> at[1][1], y |-> at[1][2], width |-> size[1], height |-> size[2]], color)

(* Drawing is cut off at the image's edges and nothing else: what is drawn  *)
(* on an image is what would be drawn on one with room around it, cut out.  *)
(* Each function of rtextures.c cuts in its own way, before it counts       *)
(* pixels, and a mistake there writes outside of the image's memory.        *)
DrawingIsClipped ==
    asked.kind = "drawing" =>
        LET image == asked.image
            wide == ImageResizeCanvas(image, image.width + 2 * Margin, image.height + 2 * Margin,
                                      Margin, Margin, <<0, 0, 0, 0>>)
            cut == [x |-> Margin, y |-> Margin, width |-> image.width, height |-> image.height]
        IN  /\ Draw(image, asked.shape, 0) = ImageCrop(Draw(wide, asked.shape, Margin), cut)
            /\ asked.shape.kind = "picture" =>
                 \A i \in 1..2 :
                    LET room == IF i = 1 THEN image.width ELSE image.height
                        c == Clipped(asked.shape.at[1][i], 0, asked.shape.size[i], room)
                    IN  c.size > 0 => c.at >= 0 /\ c.at + c.size <= room
            /\ asked.shape.kind = "triangle" =>
                 LET v == asked.shape.at
                 IN  /\ ImageDrawTriangle(image, v) = ImageDrawTriangle(image, <<v[2], v[1], v[3]>>)
                     /\ ImageDrawTriangle(image, v) = ImageDrawTriangle(image, <<v[3], v[1], v[2]>>)
                     /\ ImageDrawTriangleFan(image, v) = ImageDrawTriangle(image, v)
                     /\ ImageDrawTriangleStrip(image, v) = ImageDrawTriangle(image, v)
                     /\ {v[1], v[2], v[3]} \subseteq ImageDrawTriangleLines(v)
            /\ asked.shape.kind = "line" =>
                 LET a == asked.shape.at[1]
                     b == asked.shape.at[2]
                     drawn == ImageDrawLine(a, b)
                     twice(p) == <<2 * p[1], 2 * p[2]>>
                 IN  /\ Min({a[1], a[2], b[1], b[2]}) >= 0 =>
                          /\ ImageDrawLineV(twice(a), twice(b)) = drawn
                          /\ ImageDrawLineEx(twice(a), twice(b), 1) = drawn
                          /\ drawn \subseteq ImageDrawLineEx(twice(a), twice(b), 3)
                          /\ Cardinality(ImageDrawLineEx(twice(a), twice(b), 4)) = 4 * Cardinality(drawn)
                     /\ ImageDrawPixelV(image, twice(a), asked.shape.color)
                          = ImageDrawPixel(image, {a}, asked.shape.color)
                     /\ ImageClearBackground(image, asked.shape.color)
                          = ImageDrawPixel(image, DOMAIN image.pixels, asked.shape.color)
                     /\ Cardinality(drawn) = Greatest(Abs(b[1] - a[1]), Abs(b[2] - a[2]))
                     /\ \A p \in drawn :
                          Abs((p[1] - a[1]) * (b[2] - a[2]) - (p[2] - a[2]) * (b[1] - a[1]))
                            <= Greatest(Abs(b[1] - a[1]), Abs(b[2] - a[2]))
=============================================================================
