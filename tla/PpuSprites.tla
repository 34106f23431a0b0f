------------------------------ MODULE PpuSprites -----------------------------
(***************************************************************************)
(* Sprites and pixels (nessie-core/src/ppu/mod.rs): a line draws the       *)
(* sprites fetched during the line before, those were chosen at its dot    *)
(* 257, and each pixel is the front one of the background's and the first  *)
(* opaque sprite's.  The game may change the sprites' size, the mask or    *)
(* the sprite memory between any two of these steps.                       *)
(*                                                                         *)
(* A sprite is Size pixels wide and Size or twice Size high, a line has    *)
(* Columns pixels and MaxPerLine sprites.  A fetch is the place of the     *)
(* pattern it reads: <<tile, row>>; the two tables of patterns are left    *)
(* out, ScanlineIrq models them.  The background's pixel is any.           *)
(***************************************************************************)
EXTENDS Integers, Sequences, FiniteSets

CONSTANTS
    SpriteLists,    \* contents of the sprite memory, in its order
    Pattern,        \* the two-bit pixel at a tile, a row and a column
    Size,           \* 8 in the source
    MaxPerLine,     \* 8 in the source
    Columns, Rows,  \* the picture, 256 by 240 in the source
    MaxChanges      \* bound on the game's writes in a behaviour

(* An entry of the sprite memory; which of them is sprite 0 the evaluation notes. *)
SpriteEntries ==
    [y : Nat, x : Nat, tile : Nat, front : BOOLEAN, colour : Nat, flip : BOOLEAN,
     upside : BOOLEAN, zero : BOOLEAN]

(* The tiles an entry shows: its own, or the pair it is one of. *)
TilesOf(s) == {s.tile, 2 * (s.tile \div 2), 2 * (s.tile \div 2) + 1}

ASSUME SpriteAssumption ==
    /\ {Size, MaxPerLine, Columns, Rows} \subseteq Nat \ {0} /\ MaxChanges \in Nat
    /\ Rows > 1
    /\ SpriteLists \subseteq Seq(SpriteEntries)
    /\ \A list \in SpriteLists : \A i \in 1 .. Len(list) : \A tile \in TilesOf(list[i]) :
        \A row \in 0 .. Size - 1, c \in 0 .. Size - 1 : Pattern[<<tile, row>>][c] \in 0 .. 3

VARIABLES
    sprites,    \* the sprite memory
    tall,       \* PPUCTRL: sprites are twice as high
    mask,       \* PPUMASK: background and sprites, and their leftmost columns
    scan,       \* the line, and what it does next; line Rows is the pre-render line
    found,      \* what the evaluation chose
    fetched,    \* the slots' fetches, which stay until fetched again
    lineUp,     \* the sprites of the line being drawn
    flags,      \* sprite overflow and sprite-zero hit
    drawn,      \* the pixel drawn last
    steady,     \* history: an evaluation has begun since the game's last write
    changes     \* history: the game's writes so far

spriteVars ==
    <<sprites, tall, mask, scan, found, fetched, lineUp, flags, drawn, steady, changes>>

Rendering == mask.bg \/ mask.spr
Height == IF tall THEN 2 * Size ELSE Size
NoFetch == <<0, 0>>
EmptySlot == [x |-> 0, front |-> FALSE, colour |-> 0, flip |-> FALSE, zero |-> FALSE,
              low |-> NoFetch, high |-> NoFetch]

SpritesInit ==
    /\ sprites \in SpriteLists /\ tall \in BOOLEAN
    /\ mask \in [bg : {TRUE}, spr : {TRUE}, bgLeft : BOOLEAN, sprLeft : {TRUE}]
    /\ scan = [line |-> Rows, at |-> "evaluate", n |-> 0]
    /\ found = << >> /\ fetched = [k \in 1 .. MaxPerLine |-> EmptySlot] /\ lineUp = << >>
    /\ flags = [overflow |-> FALSE, zeroHit |-> FALSE]
    /\ drawn = [source |-> "backdrop", colour |-> 0, pixel |-> 0]
    /\ steady = FALSE /\ changes = 0

-----------------------------------------------------------------------------
(* Drawing: Columns pixels, then dot 257. *)

(* The bits a slot shows at an offset; each plane was fetched by itself. *)
PixelOf(s, offset) ==
    LET c == IF s.flip THEN Size - 1 - offset ELSE offset
    IN  (Pattern[s.low][c] % 2) + 2 * (Pattern[s.high][c] \div 2)

Opaque(s, column) ==
    column - s.x \in 0 .. Size - 1 /\ PixelOf(s, column - s.x) # 0

(* A slip: a later sprite wins. *)
LastOpaque(list, column) ==
    LET hits == {k \in 1 .. Len(list) : Opaque(list[k], column)}
    IN  IF hits = {} THEN 0 ELSE CHOOSE k \in hits : \A j \in hits : k >= j

FirstOpaque(list, column) ==
    LET hits == {k \in 1 .. Len(list) : Opaque(list[k], column)}
    IN  IF hits = {} THEN 0 ELSE CHOOSE k \in hits : \A j \in hits : k <= j

Shows(on, left, column) == on /\ (column >= Size \/ left)

(* The priority multiplexer. *)
Mux(bg, list, k, column) ==
    IF k # 0 /\ (bg = 0 \/ list[k].front)
    THEN [source |-> "sprite", colour |-> list[k].colour,
          pixel |-> PixelOf(list[k], column - list[k].x)]
    ELSE [source |-> IF bg = 0 THEN "backdrop" ELSE "background", colour |-> 0, pixel |-> bg]

HitsZero(bg, list, k, column) ==
    k # 0 /\ list[k].zero /\ bg # 0 /\ column # Columns - 1

OutputPixel(bit) ==
    LET column == scan.n
        bg == IF Shows(mask.bg, mask.bgLeft, column) THEN bit ELSE 0
        list == IF Shows(mask.spr, mask.sprLeft, column) THEN lineUp ELSE << >>
        k == FirstOpaque(list, column)
    IN  /\ drawn' = Mux(bg, list, k, column)
        /\ flags' = [flags EXCEPT !.zeroHit = @ \/ HitsZero(bg, list, k, column)]

Draw ==
    /\ scan.at = "draw"
    /\ \E bit \in {0, 1} : OutputPixel(bit)
    /\ scan' = IF scan.n + 1 < Columns THEN [scan EXCEPT !.n = @ + 1]
               ELSE [scan EXCEPT !.at = "evaluate", !.n = 0]
    /\ UNCHANGED <<sprites, tall, mask, found, fetched, lineUp, steady, changes>>

-----------------------------------------------------------------------------
(* Dot 257: the sprites of the next line, in their order; the pre-render *)
(* line finds none.                                                      *)

Covers(s, line, height) == line - s.y \in 0 .. height - 1

(* The loop over the list stops at a sprite that covers the line when it has *)
(* MaxPerLine of them, those before this one.                                *)
Before(list, line, height, i) == {j \in 1 .. i - 1 : Covers(list[j], line, height)}
HasRoom(list, line, height, i) == Cardinality(Before(list, line, height, i)) < MaxPerLine
Kept(list, line, height) ==
    {i \in 1 .. Len(list) : Covers(list[i], line, height) /\ HasRoom(list, line, height, i)}
Overflows(list, line, height) ==
    \E i \in 1 .. Len(list) : Covers(list[i], line, height) /\ ~HasRoom(list, line, height, i)

(* The k-th sprite that is kept. *)
Nth(list, line, height, k) ==
    CHOOSE i \in Kept(list, line, height) :
        Cardinality(Before(list, line, height, i)) = k - 1

Chosen(list, line, height) ==
    [k \in 1 .. Cardinality(Kept(list, line, height)) |->
        LET i == Nth(list, line, height, k) IN [list[i] EXCEPT !.zero = (i = 1)]]

Evaluate ==
    /\ scan.at = "evaluate"
    /\ scan' = [scan EXCEPT !.at = "fetch"]
    /\ IF ~Rendering THEN UNCHANGED <<found, flags>>
       ELSE IF scan.line = Rows THEN found' = << >> /\ flags' = flags
       ELSE /\ found' = Chosen(sprites, scan.line, Height)
            /\ flags' = [flags EXCEPT !.overflow = @ \/ Overflows(sprites, scan.line, Height)]
    /\ steady' = TRUE
    /\ UNCHANGED <<sprites, tall, mask, fetched, lineUp, drawn, changes>>

(* Dots 257 to 320: two fetches for each slot.  The size may have changed   *)
(* since the evaluation, so the row is taken modulo the height.             *)
RowOf(s) ==
    LET row == (scan.line - s.y) % Height IN IF s.upside THEN Height - 1 - row ELSE row

PlaceOf(s) ==
    IF tall THEN <<2 * (s.tile \div 2) + (RowOf(s) \div Size), RowOf(s) % Size>>
    ELSE <<s.tile, RowOf(s)>>

Fill(k, plane) ==
    LET s == found[k]
        slot == [fetched[k] EXCEPT !.x = s.x, !.front = s.front, !.colour = s.colour,
                                   !.flip = s.flip, !.zero = s.zero]
    IN  IF plane = 0 THEN [slot EXCEPT !.low = PlaceOf(s)] ELSE [slot EXCEPT !.high = PlaceOf(s)]

FetchSlot ==
    /\ scan.at = "fetch"
    /\ LET k == 1 + scan.n \div 2
       IN  fetched' = IF Rendering /\ k <= Len(found)
                      THEN [fetched EXCEPT ![k] = Fill(k, scan.n % 2)] ELSE fetched
    /\ scan' = IF scan.n + 1 < 2 * MaxPerLine THEN [scan EXCEPT !.n = @ + 1]
               ELSE [scan EXCEPT !.at = "end", !.n = 0]
    /\ UNCHANGED <<sprites, tall, mask, found, lineUp, flags, drawn, steady, changes>>

(* The line's end: its successor draws what was fetched, but line 0 and a  *)
(* picture switched off draw no sprite.  The flags go with the pre-render. *)
EndLine ==
    /\ scan.at = "end"
    /\ LET next == (scan.line + 1) % (Rows + 1)
       IN  /\ scan' = [line |-> next, at |-> IF next = Rows THEN "evaluate" ELSE "draw", n |-> 0]
           /\ IF next = Rows
              THEN lineUp' = lineUp /\ flags' = [overflow |-> FALSE, zeroHit |-> FALSE]
              ELSE /\ lineUp' = IF Rendering /\ next # 0 THEN SubSeq(fetched, 1, Len(found))
                                ELSE << >>
                   /\ flags' = flags
    /\ UNCHANGED <<sprites, tall, mask, found, fetched, drawn, steady, changes>>

-----------------------------------------------------------------------------
(* The game's writes. *)

Change == changes < MaxChanges /\ changes' = changes + 1 /\ steady' = FALSE

WriteSize ==
    /\ Change /\ tall' = ~tall
    /\ UNCHANGED <<sprites, mask, scan, found, fetched, lineUp, flags, drawn>>

WriteMaskBits ==
    /\ Change
    /\ \E field \in {"bg", "spr", "bgLeft", "sprLeft"} : mask' = [mask EXCEPT ![field] = ~@]
    /\ UNCHANGED <<sprites, tall, scan, found, fetched, lineUp, flags, drawn>>

WriteSprites ==
    /\ Change /\ sprites' \in SpriteLists
    /\ UNCHANGED <<tall, mask, scan, found, fetched, lineUp, flags, drawn>>

SpritesNext ==
    \/ Draw \/ Evaluate \/ FetchSlot \/ EndLine
    \/ WriteSize \/ WriteMaskBits \/ WriteSprites

SpritesSpec == SpritesInit /\ [][SpritesNext]_spriteVars

-----------------------------------------------------------------------------
(* Properties. *)

(* What a line should show of the sprite memory: the sprites whose rows it is *)
(* among, a sprite of coordinate y being on the lines y + 1 to y + height.    *)
OnLine(line, i) == line # 0 /\ line \in sprites[i].y + 1 .. sprites[i].y + Height

AmongFirst(line, i) ==
    OnLine(line, i) /\ Cardinality({j \in 1 .. i - 1 : OnLine(line, j)}) < MaxPerLine

RightPlace(s, line, height) ==
    LET down == line - 1 - s.y
        row == IF s.upside THEN height - 1 - down ELSE down
    IN  IF height = Size THEN <<s.tile, row>>
        ELSE IF row < Size THEN <<2 * (s.tile \div 2), row>>
        ELSE <<2 * (s.tile \div 2) + 1, row - Size>>

(* The pixel a sprite has in a column of a line it is on, 0 for none. *)
RightPixel(s, line, column) ==
    LET c == column - s.x
    IN  IF c \in 0 .. Size - 1
        THEN Pattern[RightPlace(s, line, Height)][IF s.flip THEN Size - 1 - c ELSE c] ELSE 0

(* The sprite that the game should see at this pixel. *)
Seen(line, column, i) ==
    Shows(mask.spr, mask.sprLeft, column) /\ AmongFirst(line, i)
        /\ RightPixel(sprites[i], line, column) # 0
OnTop(line, column, i) ==
    Seen(line, column, i) /\ \A j \in 1 .. i - 1 : ~Seen(line, column, j)

(* The pixel drawn last is the picture's: when the game left things alone since *)
(* the line before was evaluated, every line shows exactly the first sprites of *)
(* the sprite memory that lie on it, each in its rows, flipped as its           *)
(* attributes say, the first opaque one over the others even when the           *)
(* background hides it, and the sprite-zero flag rises only where sprite 0 is   *)
(* that one, and does rise when it is hidden by the background                  *)
(* (evaluate_sprites, fetch_sprite_pattern, start_scanline_sprites,             *)
(* output_pixel).                                                               *)
LinesShowTheirSprites ==
    [][Draw /\ steady /\ Rendering =>
        LET top == {i \in 1 .. Len(sprites) : OnTop(scan.line, scan.n, i)}
        IN  /\ drawn'.source = "sprite" =>
                    \E i \in top :
                        /\ drawn'.colour = sprites[i].colour
                        /\ drawn'.pixel = RightPixel(sprites[i], scan.line, scan.n)
            /\ drawn'.source = "backdrop" => top = {}
            /\ drawn'.source = "background" => \A i \in top : ~sprites[i].front
            /\ drawn'.source = "background" /\ 1 \in top /\ scan.n < Columns - 1 =>
                    flags'.zeroHit
            /\ flags'.zeroHit /\ ~flags.zeroHit =>
                    /\ 1 \in top /\ scan.n < Columns - 1
                    /\ Shows(mask.bg, mask.bgLeft, scan.n)]_spriteVars
=============================================================================
