-------------------------------- MODULE Text --------------------------------
(***************************************************************************)
(* raylib's texts (rtext.c) and what rcore.c does with paths and bytes.  A *)
(* text is the sequence of its bytes, without the zero that ends it; the   *)
(* static buffers that results are returned in are long enough.  Lengths   *)
(* of drawn text are whole: the size a font is drawn with is a multiple of *)
(* the size it was made with.                                              *)
(***************************************************************************)
EXTENDS Integers, Sequences, FiniteSets, SequencesExt

\* The byte at a place, or the zero behind the last one.
ByteAt(text, i) == IF i <= Len(text) THEN text[i] ELSE 0

InRange(c, low, high) == low <= c /\ c <= high

UpperCase(c) == IF InRange(c, 97, 122) THEN c - 32 ELSE c
LowerCase(c) == IF InRange(c, 65, 90) THEN c + 32 ELSE c
-----------------------------------------------------------------------------
(* UTF-8. *)

QuestionMark == 63

CodepointToUTF8(codepoint) ==
    LET tail(shift) == 128 + ((codepoint \div shift) % 64)
    IN  CASE codepoint <= 127 -> <<codepoint>>
          [] InRange(codepoint, 128, 2047) -> <<192 + (codepoint \div 64), tail(1)>>
          [] InRange(codepoint, 2048, 65535) -> <<224 + (codepoint \div 4096), tail(64), tail(1)>>
          [] InRange(codepoint, 65536, 1114111) ->
               <<240 + (codepoint \div 262144), tail(4096), tail(64), tail(1)>>
          [] OTHER -> <<>>

LoadUTF8(codepoints) == FlattenSeq([i \in DOMAIN codepoints |-> CodepointToUTF8(codepoints[i])])

IsTail(octet) == octet \div 64 = 2

\* The codepoint of so many bytes from i on, with the bits the first one has of it.
Joined(text, i, size, bits) ==
    FoldLeft(LAMBDA sum, k : sum * 64 + (ByteAt(text, i + k) % 64),
             ByteAt(text, i) % bits, [k \in 1..(size - 1) |-> k])

\* How many bytes the first one asks for, and how many bits of it count.
Form(octet) ==
    CASE octet < 128 -> [size |-> 1, bits |-> 128]
      [] octet \div 32 = 6 -> [size |-> 2, bits |-> 32]
      [] octet \div 16 = 14 -> [size |-> 3, bits |-> 16]
      [] octet \div 8 = 30 -> [size |-> 4, bits |-> 8]
      [] OTHER -> [size |-> 0, bits |-> 1]

\* Only the first of the bytes that follow is looked at.
TailsOnTrust(text, i) ==
    LET form == Form(ByteAt(text, i))
    IN  IF form.size > 0 /\ (form.size > 1 => IsTail(ByteAt(text, i + 1)))
          THEN [codepoint |-> Joined(text, i, form.size, form.bits), size |-> form.size]
          ELSE [codepoint |-> QuestionMark, size |-> 1]

\* Too long forms and surrogates pass.
GetCodepointNext(text, i) ==
    LET form == Form(ByteAt(text, i))
    IN  IF form.size > 0 /\ \A k \in 1..(form.size - 1) : IsTail(ByteAt(text, i + k))
          THEN [codepoint |-> Joined(text, i, form.size, form.bits), size |-> form.size]
          ELSE [codepoint |-> QuestionMark, size |-> 1]

\* The strict one: of what is no codepoint it passes over the byte it found wrong as well.
GetCodepoint(text, i) ==
    LET octet == ByteAt(text, i)
        second == ByteAt(text, i + 1)
        form == Form(octet)
        wrong == {k \in 1..(form.size - 1) : ~IsTail(ByteAt(text, i + k))}
        invalid(size) == [codepoint |-> QuestionMark, size |-> size]
    IN  CASE form.size = 0 \/ octet > 244 -> invalid(1)
          [] octet <= 244 /\ wrong # {} -> invalid(1 + CHOOSE k \in wrong : \A j \in wrong : k <= j)
          [] form.size = 2 /\ wrong = {} /\ octet < 194 -> invalid(1)
          [] \/ octet = 224 /\ wrong = {} /\ second < 160
             \/ octet = 237 /\ wrong = {} /\ second > 159
             \/ octet = 240 /\ wrong = {} /\ second < 144
             \/ octet = 244 /\ wrong = {} /\ second > 143 -> invalid(2)
          [] OTHER -> [codepoint |-> Joined(text, i, form.size, form.bits), size |-> form.size]

\* Where each codepoint begins, and where the walk over them ends.
Starts(text) ==
    FoldLeft(LAMBDA walk, i : IF walk.next = i
                                THEN [starts |-> Append(walk.starts, i),
                                      next |-> i + GetCodepointNext(text, i).size]
                                ELSE walk,
             [starts |-> <<>>, next |-> 1], [i \in 1..Len(text) |-> i])

LoadCodepoints(text) ==
    LET starts == Starts(text).starts
    IN  [n \in DOMAIN starts |-> GetCodepointNext(text, starts[n]).codepoint]

GetCodepointCount(text) == Len(Starts(text).starts)

\* Of the codepoint that ends before i.
GetCodepointPrevious(text, i) ==
    LET first == CHOOSE k \in 1..(i - 1) : /\ ~IsTail(text[k])
                                           /\ \A j \in (k + 1)..(i - 1) : IsTail(text[j])
        next == GetCodepointNext(text, first)
    IN  IF next.codepoint = 0 THEN [next EXCEPT !.size = 1] ELSE next
-----------------------------------------------------------------------------
(* Parts of texts. *)

IsAt(text, i, search) ==
    i + Len(search) - 1 <= Len(text) /\ \A k \in DOMAIN search : text[i + k - 1] = search[k]

\* strstr, from a place on; 0 if there is none.
FoundFrom(text, search, from) ==
    LET places == {i \in from..(Len(text) + 1) : IsAt(text, i, search)}
    IN  IF places = {} THEN 0 ELSE CHOOSE i \in places : \A j \in places : i <= j

\* Counted from 0, -1 if there is none.
TextFindIndex(text, search) == FoundFrom(text, search, 1) - 1

TextSubtext(text, position, length) == SubSeq(text, position + 1,
    IF position + length > Len(text) THEN Len(text) ELSE position + length)

GetTextBetween(text, begin, end) ==
    LET first == FoundFrom(text, begin, 1) + Len(begin)
        last == FoundFrom(text, end, first) - 1
    IN  IF FoundFrom(text, begin, 1) = 0 \/ last = -1 THEN <<>> ELSE SubSeq(text, first, last)

\* What is between stays as a part if nothing is found; an empty text is the answer then.
TextReplaceBetween(text, begin, end, replacement) ==
    LET first == FoundFrom(text, begin, 1) + Len(begin)
        last == FoundFrom(text, end, first) - 1
    IN  IF FoundFrom(text, begin, 1) = 0 \/ last = -1 THEN <<>>
        ELSE SubSeq(text, 1, first - 1) \o replacement \o SubSeq(text, last + 1, Len(text))

TextReplaceBetweenAlloc(text, begin, end, replacement) ==
    TextReplaceBetween(text, begin, end, replacement)

\* The next search begins at the place the last one was found at.
FoundAnew(text, search, replacement) ==
    LET copied == FoldLeft(LAMBDA done, i :
                    IF i < done.next \/ ~IsAt(text, i, search) THEN done
                    ELSE [result |-> done.result \o SubSeq(text, done.next, i - 1) \o replacement,
                          next |-> i + 1],
                    [result |-> <<>>, next |-> 1], [i \in 1..Len(text) |-> i])
    IN  copied.result \o SubSeq(text, copied.next, Len(text))

\* What is copied so far, and where in the text the copy goes on.
TextReplace(text, search, replacement) ==
    LET copied == FoldLeft(LAMBDA done, i :
                    IF i < done.next \/ ~IsAt(text, i, search) THEN done
                    ELSE [result |-> done.result \o SubSeq(text, done.next, i - 1) \o replacement,
                          next |-> i + Len(search)],
                    [result |-> <<>>, next |-> 1], [i \in 1..Len(text) |-> i])
    IN  copied.result \o SubSeq(text, copied.next, Len(text))

TextReplaceAlloc(text, search, replacement) == TextReplace(text, search, replacement)

TextSplit(text, delimiter) ==
    FoldLeft(LAMBDA parts, c : IF c = delimiter THEN Append(parts, <<>>)
                               ELSE [parts EXCEPT ![Len(parts)] = Append(@, c)],
             <<<<>>>>, text)

TextJoin(textList, delimiter) ==
    FlattenSeq([i \in DOMAIN textList |-> IF i < Len(textList) THEN textList[i] \o delimiter
                                          ELSE textList[i]])

Newline == 10

LoadTextLines(text) ==
    LET ends == {i \in 1..(Len(text) + 1) : ByteAt(text, i) \in {Newline, 0}}
        before(i) == {j \in ends : j < i}
        start(i) == IF before(i) = {} THEN 1 ELSE 1 + CHOOSE j \in before(i) : \A k \in before(i) : k <= j
        sorted == SetToSortSeq(ends, LAMBDA i, j : i < j)
    IN  [n \in DOMAIN sorted |-> SubSeq(text, start(sorted[n]), sorted[n] - 1)]

TextToUpper(text) == [i \in DOMAIN text |-> UpperCase(text[i])]
TextToLower(text) == [i \in DOMAIN text |-> LowerCase(text[i])]

Underscore == 95

\* A letter after an underscore becomes a capital; of names whose words begin with small letters.
Capitals(text, first) ==
    FoldLeft(LAMBDA name, i :
               CASE i = 1 -> <<first>>
                 [] i > 1 /\ text[i] = Underscore -> name
                 [] i > 1 /\ text[i] # Underscore ->
                      Append(name, IF text[i - 1] = Underscore THEN UpperCase(text[i]) ELSE text[i]),
             <<>>, [i \in DOMAIN text |-> i])

TextToPascal(text) == Capitals(text, UpperCase(ByteAt(text, 1)))
TextToCamel(text) == Capitals(text, LowerCase(ByteAt(text, 1)))

TextToSnake(text) ==
    FlattenSeq([i \in DOMAIN text |->
        CASE ~InRange(text[i], 65, 90) -> <<text[i]>>
          [] InRange(text[i], 65, 90) /\ i = 1 -> <<LowerCase(text[i])>>
          [] InRange(text[i], 65, 90) /\ i > 1 -> <<Underscore, LowerCase(text[i])>>])

IsDigit(c) == InRange(c, 48, 57)

TextToInteger(text) ==
    LET signed == ByteAt(text, 1) \in {43, 45}
        start == IF signed THEN 2 ELSE 1
        value == FoldLeft(LAMBDA v, i : IF i >= start /\ \A k \in start..i : IsDigit(text[k])
                                          THEN v * 10 + (text[i] - 48) ELSE v,
                          0, [i \in DOMAIN text |-> i])
    IN  IF ByteAt(text, 1) = 45 THEN -value ELSE value
-----------------------------------------------------------------------------
(* Paths. *)

Slash == 47
Backslash == 92
Colon == 58
Dot == 46

\* The last place of one of the characters, 0 if there is none.
strprbrk(text, charset) ==
    LET places == {i \in DOMAIN text : text[i] \in charset}
    IN  IF places = {} THEN 0 ELSE CHOOSE i \in places : \A j \in places : j <= i

GetFileName(filePath) == SubSeq(filePath, strprbrk(filePath, {Slash, Backslash}) + 1, Len(filePath))

\* The last dot of the whole path, directories included; none for a path that begins with it.
GetFileExtension(fileName) ==
    LET dot == strprbrk(fileName, {Dot})
    IN  IF dot <= 1 THEN <<>> ELSE SubSeq(fileName, dot, Len(fileName))

GetFileNameWithoutExt(filePath) ==
    LET fileName == GetFileName(filePath)
        dot == strprbrk(fileName, {Dot})
    IN  IF dot <= 1 THEN fileName ELSE SubSeq(fileName, 1, dot - 1)

\* A list of extensions with semicolons, with or without their dots.
IsFileExtension(fileName, ext) ==
    LET fileExt == TextToLower(GetFileExtension(fileName))
        extensions == TextSplit(TextToLower(ext), 59)
    IN  /\ fileExt # <<>>
        /\ \E i \in DOMAIN extensions :
             IF ByteAt(extensions[i], 1) = Dot THEN extensions[i] = fileExt
             ELSE extensions[i] = Tail(fileExt)

\* A path is from the root of a drive or of the disk, or from where the program is.
Rooted(path) == ByteAt(path, 2) = Colon \/ ByteAt(path, 1) \in {Slash, Backslash}

GetDirectoryPath(filePath) ==
    LET start == IF Rooted(filePath) THEN <<>> ELSE <<Dot, Slash>>
        last == strprbrk(filePath, {Slash, Backslash})
    IN  CASE last = 0 -> start
          [] last = 1 -> SubSeq(filePath, 1, 1)
          [] last > 1 -> start \o SubSeq(filePath, 1, last - 1)

\* Paths of at most three characters are kept.
GetPrevDirectoryPath(dirPath) ==
    LET last == strprbrk(dirPath, {Slash, Backslash})
        root == (last = 1) \/ (last = 3 /\ dirPath[2] = Colon)
    IN  CASE Len(dirPath) <= 3 -> dirPath
          [] Len(dirPath) > 3 -> SubSeq(dirPath, 1, IF root THEN last ELSE last - 1)

IsFileNameValid(fileName) ==
    /\ \A i \in DOMAIN fileName :
         /\ fileName[i] \notin {60, 62, Colon, 34, Slash, Backslash, 124, QuestionMark, 42}
         /\ fileName[i] >= 32
    /\ fileName # <<>> => \E i \in DOMAIN fileName : fileName[i] # Dot
-----------------------------------------------------------------------------
(* Base64: three bytes in four characters.  A character stands for its     *)
(* place in the table; Padding is the sign that fills the last four up.    *)

Padding == 64

Sextets(pack) == <<pack \div 262144, (pack \div 4096) % 64, (pack \div 64) % 64, pack % 64>>

EncodeDataBase64(data) ==
    LET fours == (Len(data) + 2) \div 3
        padding == 3 * fours - Len(data)
        pack(n) == ByteAt(data, 3 * n - 2) * 65536 + ByteAt(data, 3 * n - 1) * 256 + ByteAt(data, 3 * n)
        encoded == FlattenSeq([n \in 1..fours |-> Sextets(pack(n))])
    IN  [i \in DOMAIN encoded |-> IF i > Len(encoded) - padding THEN Padding ELSE encoded[i]]

DecodeDataBase64(text) ==
    LET padding == Cardinality({i \in DOMAIN text : \A k \in i..Len(text) : text[k] = Padding})
        sextet(i) == IF text[i] = Padding THEN 0 ELSE text[i]
        pack(n) == sextet(4 * n - 3) * 262144 + sextet(4 * n - 2) * 4096
                     + sextet(4 * n - 1) * 64 + sextet(4 * n)
        decoded == FlattenSeq([n \in 1..(Len(text) \div 4) |->
                                 <<pack(n) \div 65536, (pack(n) \div 256) % 256, pack(n) % 256>>])
    IN  SubSeq(decoded, 1, Len(decoded) - padding)
-----------------------------------------------------------------------------
(* Text on the screen.  A font is the size its glyphs have, the space      *)
(* around them in its picture and, for each glyph, its codepoint, how far  *)
(* it moves the pen (0: by its width), where it is drawn from the pen and  *)
(* how wide and high it is.                                                *)

\* The first glyph of it, or the question mark's (the last one before the search ends).
GetGlyphIndex(font, codepoint) ==
    LET has(value) == {i \in DOMAIN font.glyphs : font.glyphs[i].value = value}
        least(s) == CHOOSE i \in s : \A j \in s : i <= j
        most(s) == CHOOSE i \in s : \A j \in s : j <= i
    IN  CASE has(codepoint) # {} -> least(has(codepoint))
          [] has(codepoint) = {} /\ has(QuestionMark) # {} -> most(has(QuestionMark))
          [] OTHER -> 1

\* The glyph's picture and the space around it, on the screen.
DrawTextCodepoint(font, codepoint, position, scale) ==
    LET glyph == font.glyphs[GetGlyphIndex(font, codepoint)]
        padding == font.padding
    IN  [glyph |-> codepoint,
         x |-> position.x + (glyph.offsetX - padding) * scale,
         y |-> position.y + (glyph.offsetY - padding) * scale,
         width |-> (glyph.width + 2 * padding) * scale,
         height |-> (glyph.height + 2 * padding) * scale]

Blank == {32, 9}

\* The pen, and what it left behind; `ends` is where each line ended.
DrawTextCodepoints(font, codepoints, position, scale, spacing, lineSpacing) ==
    FoldLeft(LAMBDA pen, c :
               LET glyph == font.glyphs[GetGlyphIndex(font, c)]
                   advance == IF glyph.advanceX = 0 THEN glyph.width ELSE glyph.advanceX
                   at == [x |-> position.x + pen.x, y |-> position.y + pen.y]
               IN  IF c = Newline
                     THEN [pen EXCEPT !.x = 0, !.y = @ + font.baseSize * scale + lineSpacing,
                                      !.ends = Append(@, 0)]
                     ELSE [pen EXCEPT !.x = @ + advance * scale + spacing,
                                      !.ends[Len(pen.ends)] = pen.x + advance * scale + spacing,
                                      !.drawn = IF c \in Blank THEN @
                                                ELSE Append(@, DrawTextCodepoint(font, c, at, scale))],
             [x |-> 0, y |-> 0, ends |-> <<0>>, drawn |-> <<>>], codepoints)

DrawTextEx(font, text, position, scale, spacing, lineSpacing) ==
    DrawTextCodepoints(font, LoadCodepoints(text), position, scale, spacing, lineSpacing)

Larger(a, b) == IF a < b THEN b ELSE a

MeasureTextCodepoints(font, codepoints, scale, spacing, lineSpacing) ==
    LET measured ==
            FoldLeft(LAMBDA m, c :
                       LET glyph == font.glyphs[GetGlyphIndex(font, c)]
                           advance == IF glyph.advanceX > 0 THEN glyph.advanceX
                                      ELSE glyph.width + glyph.offsetX
                       IN  IF c = Newline
                             THEN [m EXCEPT !.longest = Larger(@, m.width), !.width = 0, !.count = 0,
                                            !.height = @ + font.baseSize * scale + lineSpacing]
                             ELSE [m EXCEPT !.width = @ + advance, !.count = @ + 1,
                                            !.most = Larger(@, m.count + 1)],
                     [width |-> 0, longest |-> 0, count |-> 0, most |-> 0,
                      height |-> font.baseSize * scale], codepoints)
    IN  IF codepoints = <<>> THEN [x |-> 0, y |-> 0]
        ELSE [x |-> Larger(measured.longest, measured.width) * scale + (measured.most - 1) * spacing,
              y |-> measured.height]

MeasureTextEx(font, text, scale, spacing, lineSpacing) ==
    MeasureTextCodepoints(font, LoadCodepoints(text), scale, spacing, lineSpacing)
-----------------------------------------------------------------------------
(* The picture of a font: its glyphs, of given widths and heights, one     *)
(* after the other in rows.                                                *)

Powers == {2 ^ n : n \in 0..12}

\* The smallest power of two whose square has a fifth more than the area.
AtlasSize(sizes, fontSize, padding) ==
    LET total == FoldLeft(LAMBDA sum, s : sum + s.width + 2 * padding, 0, sizes)
        area == 12 * total * (fontSize + 2 * padding)
        large == {p \in Powers : 10 * p * p >= area}
        size == CHOOSE p \in large : \A q \in large : p <= q
    IN  [width |-> size, height |-> IF area < 10 * ((size * size) \div 2) THEN size \div 2 ELSE size]

\* The rows, each so far below the one before it.
Packed(sizes, fontSize, padding, below) ==
    LET start == AtlasSize(sizes, fontSize, padding)
    IN  FoldLeft(LAMBDA atlas, s :
                   LET full == atlas.x >= atlas.width - s.width - 2 * padding
                       y == IF full THEN atlas.y + below ELSE atlas.y
                       x == IF full THEN padding ELSE atlas.x
                   IN  [atlas EXCEPT !.x = x + s.width + 2 * padding, !.y = y,
                           !.height = IF full /\ y > @ - fontSize - padding THEN 2 * @ ELSE @,
                           !.recs = Append(@, [x |-> x, y |-> y, width |-> s.width, height |-> s.height])],
                 [width |-> start.width, height |-> start.height, x |-> padding, y |-> padding,
                  recs |-> <<>>], sizes)

RowsTooClose(sizes, fontSize, padding) == \* seeded fault
    Packed(sizes, fontSize, padding, fontSize)

GenImageFontAtlas(sizes, fontSize, padding) ==
    Packed(sizes, fontSize, padding, fontSize + 2 * padding)

\* Written over the picture at last, for shapes that are drawn with it.
WhiteCorner(atlas) == [x |-> atlas.width - 3, y |-> atlas.height - 3, width |-> 3, height |-> 3]
=============================================================================
