------------------------------ MODULE TextLaws ------------------------------
(* Questions about texts, paths and fonts, and their answers.              *)
EXTENDS Text

CONSTANTS
    Codepoints,     \* what texts are made of
    Octets,         \* bytes, those of no codepoint among them
    Letters,        \* the bytes of texts that are edited
    Delimiter,      \* one of them
    Words,          \* the words of names: small letters
    Names,          \* the names of files and directories
    Extensions,     \* of files, with their dots
    Fonts,          \* their glyphs and sizes
    Glyphs,         \* what is written with them
    Widths          \* the widths of glyphs that a font's picture is made of

VARIABLE asked

UpTo(n, S) == UNION {[1..k -> S] : k \in 0..n}

AskCodepoints == \E cs \in UpTo(3, Codepoints) : asked' = [kind |-> "codepoints", codepoints |-> cs]

AskBytes == \E bs \in UpTo(4, Octets) : asked' = [kind |-> "bytes", bytes |-> bs]

AskEdit ==
    \E text \in UpTo(4, Letters), search \in UpTo(2, Letters) \ {<<>>}, other \in UpTo(1, Letters) :
        asked' = [kind |-> "edit", text |-> text, search |-> search, other |-> other]

AskPath ==
    \E dirs \in UpTo(2, Names), name \in Names, ext \in Extensions, root \in {<<>>, <<Slash>>} :
        asked' = [kind |-> "path", dirs |-> dirs, name |-> name, ext |-> ext, root |-> root]

AskName ==
    \E words \in UpTo(3, Words) \ {<<>>}, n \in {0, 7, 40, 1234} :
        asked' = [kind |-> "name", words |-> words, number |-> n]

AskText ==
    \E font \in Fonts, text \in UpTo(4, Glyphs), scale \in 1..2, spacing \in 0..2 :
        asked' = [kind |-> "text", font |-> font, text |-> text, scale |-> scale, spacing |-> spacing]

AskAtlas ==
    \E widths \in [1..4 -> Widths], many \in {1, 3}, size \in 4..6, lower \in 0..1, padding \in 0..2 :
        asked' = [kind |-> "atlas", size |-> size, padding |-> padding,
                  glyphs |-> FlattenSeq([i \in 1..many |-> [k \in 1..4 |->
                                [width |-> widths[k], height |-> IF k = i THEN size - lower ELSE size]]])]
-----------------------------------------------------------------------------
\* Walking back from the end, the codepoints from the last to the first.
WalkBack(text) ==
    FoldLeft(LAMBDA walk, i : IF walk.at # i THEN walk
                              ELSE LET previous == GetCodepointPrevious(text, i)
                                   IN  [back |-> Append(walk.back, previous.codepoint),
                                        at |-> i - previous.size],
             [back |-> <<>>, at |-> Len(text) + 1], [i \in 1..Len(text) |-> Len(text) + 2 - i])

(* Encodings give back what was encoded.  The codepoints of a text in UTF-8 *)
(* are the ones it was made of, counted right, one after the other from     *)
(* either end, and the strict decoder agrees; and whatever the bytes, the   *)
(* walk over a text never steps past its end: a form cut short is a         *)
(* question mark of one byte.  Base64 returns every byte.                   *)
EncodingsReturn ==
    /\ asked.kind = "codepoints" =>
         LET cs == asked.codepoints
             text == LoadUTF8(cs)
             starts == Starts(text).starts
         IN  /\ LoadCodepoints(text) = cs
             /\ GetCodepointCount(text) = Len(cs)
             /\ \A n \in DOMAIN starts : GetCodepoint(text, starts[n]) = GetCodepointNext(text, starts[n])
             /\ WalkBack(text).back = Reverse(cs)
    /\ asked.kind = "bytes" =>
         LET bytes == asked.bytes
             coded == EncodeDataBase64(bytes)
         IN  /\ Starts(bytes).next = Len(bytes) + 1
             /\ \A i \in DOMAIN bytes : GetCodepoint(bytes, i).codepoint # QuestionMark
                                          => GetCodepoint(bytes, i) = GetCodepointNext(bytes, i)
             /\ Len(coded) = 4 * ((Len(bytes) + 2) \div 3)
             /\ \A i \in DOMAIN coded : coded[i] \in 0..63 \cup {Padding}
             /\ DecodeDataBase64(coded) = bytes

\* Whether the parts of a text meet again when they are joined.
EditedRight(text, search, other) ==
    LET first == TextFindIndex(text, search)
        pieces == TextSplit(text, Delimiter)
        between == GetTextBetween(text, search, search)
        replaced == TextReplace(text, search, other)
    IN  /\ TextJoin(pieces, <<Delimiter>>) = text
        /\ \A i \in DOMAIN pieces : Delimiter \notin ToSet(pieces[i])
        /\ TextReplace(text, <<Delimiter>>, other) = TextJoin(pieces, other)
        /\ TextReplaceAlloc(text, search, search) = text
        /\ first = -1 => replaced = text
        /\ first >= 0 =>
             /\ TextSubtext(text, first, Len(search)) = search
             /\ \A i \in 0..(first - 1) : TextSubtext(text, i, Len(search)) # search
             /\ replaced = SubSeq(text, 1, first) \o other
                             \o TextReplace(SubSeq(text, first + Len(search) + 1, Len(text)), search, other)
        /\ between # <<>> =>
             /\ TextReplaceBetween(text, search, search, between) = TextSubtext(text, 0, Len(text))
             /\ GetTextBetween(TextReplaceBetweenAlloc(text, search, search, <<200>>), search, search) = <<200>>
        /\ TextJoin(LoadTextLines(text), <<Newline>>) = text
        /\ Newline \notin UNION {ToSet(l) : l \in ToSet(LoadTextLines(text))}

\* The decimal digits of a number.
Decimal(n) == IF n = 0 THEN <<48>>
              ELSE LET digits == {k \in 0..9 : 10 ^ k <= n}
                       count == Cardinality(digits)
                   IN  [i \in 1..count |-> 48 + ((n \div 10 ^ (count - i)) % 10)]

(* Texts come apart and fit together again: joined parts are the text they  *)
(* were split from, what is replaced is what was found and nothing of the   *)
(* replacement is searched again, names change their case and back, a path  *)
(* is its directory and its file's name, and a name is its stem and its     *)
(* extension, as long as no directory on the way has a dot.                 *)
TextsComeApart ==
    /\ asked.kind = "edit" => EditedRight(asked.text, asked.search, asked.other)
    /\ asked.kind = "path" =>
         LET within == FlattenSeq([i \in DOMAIN asked.dirs |-> asked.dirs[i] \o <<Slash>>])
             file == asked.name \o asked.ext
             path == asked.root \o within \o file
             here == IF asked.root = <<>> THEN <<Dot, Slash>> ELSE <<>>
             directory == GetDirectoryPath(path)
             above == IF Len(directory) > 3 THEN GetPrevDirectoryPath(directory) ELSE <<>>
         IN  /\ GetFileName(path) = file
             /\ GetFileExtension(path) = asked.ext
             /\ GetFileNameWithoutExt(path) = asked.name
             /\ IsFileExtension(path, TextJoin(<< <<Dot, 120>>, TextToUpper(asked.ext)>>, <<59>>))
                  = (asked.ext # <<>>)
             /\ asked.dirs # <<>> =>
                  /\ directory \o <<Slash>> \o file = here \o path
                  /\ above # <<>> /\ above # <<Slash>> => above \o <<Slash>> \o Last(asked.dirs) = directory
             /\ asked.dirs = <<>> => directory \o file = here \o path
             /\ IsFileNameValid(file) /\ (Len(path) > Len(file) => ~IsFileNameValid(path))
    /\ asked.kind = "name" =>
         LET snake == TextJoin(asked.words, <<Underscore>>)
             digits == Decimal(asked.number)
         IN  /\ TextToSnake(TextToPascal(snake)) = snake
             /\ TextToSnake(TextToCamel(snake)) = snake
             /\ TextToLower(TextToPascal(snake)) = FlattenSeq(asked.words)
             /\ TextToLower(TextToUpper(snake)) = snake
             /\ TextToInteger(digits \o snake) = asked.number
             /\ TextToInteger(<<45>> \o digits) = -asked.number

\* Two rectangles of a picture with some space around each.
Apart(a, b, space) ==
    \/ a.x + a.width + space <= b.x \/ b.x + b.width + space <= a.x
    \/ a.y + a.height + space <= b.y \/ b.y + b.height + space <= a.y

\* A glyph that moves the pen by its width alone is measured with the way from the pen to it.
Unlike(glyph) == IF glyph.advanceX = 0 THEN glyph.offsetX ELSE 0

\* Within the height of the glyphs of its font.
InsideLine(font, glyph) == glyph.offsetY >= 0 /\ glyph.offsetY + glyph.height <= font.baseSize

(* Text takes the room it was measured to take: no line is drawn longer and *)
(* one line is exactly as long, but for the offsets of glyphs whose advance *)
(* is 0, which are measured (rtext.c:1370, 1426) and not drawn (l.1236,     *)
(* 1307), and for a line of less than no width, which is measured as none.  *)
(* The lines are as high as measured, and a glyph that is within the height *)
(* of its font stays within the height of its line.  The glyphs of a font's *)
(* picture, none higher than the font, stay apart with their space around   *)
(* them, within its width, and its height if one row fits, in the order of  *)
(* the font, and with a space of two pixels the white corner covers none of *)
(* them: one that overlaps another shows parts of it.                       *)
TextIsLaidOut ==
    /\ asked.kind = "text" /\ asked.text # <<>> =>
         LET font == asked.font
             scale == asked.scale
             gap == 2
             at == [x |-> 5, y |-> 7]
             glyph(c) == font.glyphs[GetGlyphIndex(font, c)]
             pen == DrawTextCodepoints(font, asked.text, at, scale, asked.spacing, gap)
             size == MeasureTextEx(font, LoadUTF8(asked.text), scale, asked.spacing, gap)
             lines == TextSplit(asked.text, Newline)
             letters == [n \in DOMAIN lines |-> SelectSeq(lines[n], LAMBDA c : c \notin Blank)]
             unlike(n) == scale * FoldLeft(LAMBDA sum, c : sum + Unlike(glyph(c)), 0, lines[n])
             long(n) == pen.ends[n] - asked.spacing + unlike(n)
             lineOf == FlattenSeq([n \in DOMAIN lines |-> [i \in DOMAIN letters[n] |-> n]])
             top(n) == at.y + (n - 1) * (font.baseSize * scale + gap)
         IN  /\ DrawTextEx(font, LoadUTF8(asked.text), at, scale, asked.spacing, gap) = pen
             /\ MeasureTextCodepoints(font, asked.text, scale, asked.spacing, gap) = size
             /\ \A n \in DOMAIN lines : lines[n] # <<>> => long(n) <= size.x
             /\ Len(lines) = 1 => size.x = Larger(long(1), (Len(asked.text) - 1) * asked.spacing)
             /\ size.y = top(Len(lines)) + font.baseSize * scale - at.y
             /\ [i \in DOMAIN pen.drawn |-> pen.drawn[i].glyph] = FlattenSeq(letters)
             /\ \A i \in DOMAIN pen.drawn :
                  LET drawn == pen.drawn[i]
                      y == drawn.y + scale * font.padding
                      below == y + drawn.height - 2 * scale * font.padding
                  IN  InsideLine(font, glyph(drawn.glyph)) =>
                        /\ top(lineOf[i]) <= y
                        /\ below <= top(lineOf[i]) + font.baseSize * scale
                        /\ below <= at.y + size.y
    /\ asked.kind = "atlas" =>
         LET atlas == GenImageFontAtlas(asked.glyphs, asked.size, asked.padding)
             recs == atlas.recs
         IN  \A i \in DOMAIN recs :
               /\ recs[i].x >= asked.padding /\ recs[i].y >= asked.padding
               /\ recs[i].x + recs[i].width + asked.padding <= atlas.width
               /\ AtlasSize(asked.glyphs, asked.size, asked.padding).height >= asked.size + 2 * asked.padding
                    => recs[i].y + recs[i].height + asked.padding <= atlas.height
               /\ asked.padding >= 2 => Apart(recs[i], WhiteCorner(atlas), 0)
               /\ \A j \in 1..(i - 1) : /\ Apart(recs[j], recs[i], 2 * asked.padding)
                                        /\ recs[j].y <= recs[i].y
=============================================================================
