------------------------------ MODULE PpuScroll ------------------------------
(***************************************************************************)
(* How the picture follows the scroll registers (nessie-core/src/ppu/      *)
(* mod.rs): the address registers v and t, the fine scroll x and the write *)
(* toggle w behind $2000, $2002, $2005 and $2006, which the game writes at *)
(* any dot, and the pipeline that walks v over the nametables, fetches a   *)
(* tile ahead and shifts the pixels out.                                   *)
(*                                                                         *)
(* The addresses keep their fifteen bits and their increments.  A line has *)
(* Tiles visible tiles; the dots between 257 and 321 in which nothing is   *)
(* fetched for the background are left out, and the picture has Lines      *)
(* lines.  A pixel is the place of the nametables it was read from.        *)
(* What the game's writes ask for is also kept field by field, apart from  *)
(* the registers, and the picture is compared with that.                   *)
(***************************************************************************)
EXTENDS Integers, Sequences

CONSTANTS
    Tiles, Lines,           \* 32 and 240 in the source
    ScrollBytes,            \* what a game writes to $2005
    AddressBytes,           \* what a game writes to $2006
    MaxAccesses,            \* bound on the game's accesses in a behaviour
    AccessDots,             \* bound on the dots they come at
    Blank, Torn             \* a pixel never fetched; one of two different tiles

ASSUME ScrollAssumption ==
    /\ Tiles \in Nat \ {0} /\ Lines \in Nat \ {0} /\ MaxAccesses \in Nat
    /\ ScrollBytes \cup AddressBytes \subseteq 0 .. 255
    /\ Blank # Torn
    /\ \A none \in {Blank, Torn} : none \notin Nat /\ none \notin Nat \X Nat

VARIABLES
    loopy,      \* the registers v, t, x and w
    showing,    \* rendering is on
    beam,       \* the next dot and its line; line Lines is the pre-render line
    latched,    \* what the fetches of the tile under way found
    shifter,    \* the sixteen pixels of the shift registers, leftmost first
    asked,      \* history: the scroll that the game's writes ask for, field by field,
                \* and whether the next is the second of a pair
    aim,        \* history: where the line begins across and the frame down the plane,
                \* and whether it does
    accesses    \* history: the game's accesses so far

scrollVars == <<loopy, showing, beam, latched, shifter, asked, aim, accesses>>

Place(n, unit, size) == (n \div unit) % size
Put(n, unit, size, field) == n + (field - Place(n, unit, size)) * unit

CoarseX(v) == Place(v, 1, 32)
CoarseY(v) == Place(v, 32, 32)
Across(v)  == Place(v, 1024, 2)     \* the horizontal and the vertical nametable
FineDown(v)    == Place(v, 2048, 2)
FineY(v)   == Place(v, 4096, 8)

(* The attribute byte's address and the shift within it, dot 3 of a tile. *)
AttributeAt(v) == <<9152 + 1024 * Place(v, 1024, 4) + 8 * Place(v, 128, 8) + Place(v, 4, 8),
                    4 * Place(v, 64, 2) + 2 * Place(v, 2, 2)>>

-----------------------------------------------------------------------------
(* The walk of v. *)

IncrementCoarseX(v) ==
    IF CoarseX(v) = 31 THEN Put(Put(v, 1, 32, 0), 1024, 2, 1 - Across(v)) ELSE v + 1

IncrementY(v) ==
    LET top == Put(v, 4096, 8, 0)
        y == CoarseY(v)
    IN  IF FineY(v) # 7 THEN v + 4096
        ELSE IF y = 29 THEN Put(Put(top, 32, 32, 0), 2048, 2, 1 - FineDown(v))
        ELSE Put(top, 32, 32, IF y = 31 THEN 0 ELSE y + 1)

(* A slip: the nametable bit is not copied. *)
CopyXOfTile(v, t) == Put(v, 1, 32, CoarseX(t))

CopyX(v, t) == Put(Put(v, 1, 32, CoarseX(t)), 1024, 2, Across(t))
CopyY(v, t) == Put(Put(Put(v, 32, 32, CoarseY(t)), 2048, 2, FineDown(t)), 4096, 8, FineY(t))

-----------------------------------------------------------------------------
(* The pipeline of one dot. *)

LastDot == 8 * Tiles + 81       \* the last dot modelled, 337 in the source
Copying == 8 * Tiles + 1        \* dot 257
Prefetch == 8 * Tiles + 65      \* dot 321
ShiftsAt(d) == d \in 2 .. Copying \/ d > Prefetch
Fetches(d) == d \in 1 .. Copying - 1 \/ d \in Prefetch .. LastDot - 1

Shift(s) == Append(Tail(s), Blank)

(* Both planes and the attribute of one tile, or a torn tile. *)
LatchedPixels ==
    [c \in 1 .. 8 |->
        IF latched.tile = Blank THEN Blank
        ELSE IF /\ latched.low = latched.tile /\ latched.high = latched.tile
                /\ latched.attribute = AttributeAt(latched.tile)
        THEN <<latched.tile, c - 1>> ELSE Torn]

Reload(s) == SubSeq(s, 1, 8) \o LatchedPixels

(* The rows differ only in fine Y, which the pattern fetches read anew. *)
WithRow(tile, v) == IF tile = Blank THEN Blank ELSE Put(tile, 4096, 8, FineY(v))

FetchAt(d, v) ==
    CASE d % 8 = 1 -> [latched EXCEPT !.tile = v]
      [] d % 8 = 3 -> [latched EXCEPT !.attribute = AttributeAt(v)]
      [] d % 8 = 5 -> [latched EXCEPT !.low = WithRow(latched.tile, v)]
      [] d % 8 = 7 -> [latched EXCEPT !.high = WithRow(latched.tile, v)]
      [] OTHER -> latched

WalkAt(d, v) ==
    LET stepped == IF d % 8 = 0 THEN IncrementCoarseX(v) ELSE v
        lower == IF d = Copying - 1 THEN IncrementY(stepped) ELSE stepped
    IN  IF d = Copying THEN CopyX(v, loopy.t) ELSE IF Fetches(d) THEN lower ELSE v

Render(d) ==
    LET shifted == IF ShiftsAt(d) THEN Shift(shifter) ELSE shifter
        reloads == d = Copying \/ (Fetches(d) /\ d % 8 = 1)
    IN  /\ shifter' = IF reloads THEN Reload(shifted) ELSE shifted
        /\ latched' = IF Fetches(d) THEN FetchAt(d, loopy.v) ELSE latched
        /\ loopy' = [loopy EXCEPT !.v = WalkAt(d, @)]

-----------------------------------------------------------------------------
(* Behaviours. *)

(* The game has set a scroll up, perhaps with the first half of a pair pending, *)
(* and the pre-render line is about to copy it.                                 *)
ScrollInit ==
    /\ \E b \in ScrollBytes, table \in 0 .. 3, second \in BOOLEAN :
        /\ loopy = [v |-> 0, t |-> (b \div 8) * 33 + table * 1024 + (b % 8) * 4096,
                    x |-> b % 8, w |-> second]
        /\ asked = [column |-> b \div 8, fine |-> b % 8, row |-> b \div 8, scan |-> b % 8,
                    table |-> table, second |-> second]
    /\ showing = TRUE /\ beam = [line |-> Lines, dot |-> Copying]
    /\ latched = [tile |-> Blank, attribute |-> AttributeAt(0), low |-> Blank, high |-> Blank]
    /\ shifter = [i \in 1 .. 16 |-> Blank]
    /\ aim = [x |-> 0, y |-> 0, across |-> FALSE, down |-> FALSE] /\ accesses = 0

NextLine == (beam.line + 1) % (Lines + 1)
AfterDot == IF beam.dot = LastDot THEN [line |-> NextLine, dot |-> 1]
            ELSE [beam EXCEPT !.dot = @ + 1]

(* Dots 258 to 320: only the pre-render line's vertical copy. *)
AcrossGap ==
    /\ beam.dot = Copying + 1
    /\ beam' = [beam EXCEPT !.dot = Prefetch]
    /\ IF showing /\ beam.line = Lines
       THEN /\ loopy' = [loopy EXCEPT !.v = CopyY(@, loopy.t)]
            /\ aim' = [aim EXCEPT !.y = 240 * (asked.table \div 2) + 8 * asked.row + asked.scan,
                                  !.down = asked.row < 30]
       ELSE UNCHANGED <<loopy, aim>>
    /\ UNCHANGED <<showing, latched, shifter, asked, accesses>>

Dot ==
    /\ beam.dot # Copying + 1
    /\ beam' = AfterDot
    /\ IF showing THEN Render(beam.dot) ELSE UNCHANGED <<loopy, latched, shifter>>
    /\ aim' = IF beam.dot = Copying /\ showing
              THEN [aim EXCEPT !.x = 256 * (asked.table % 2) + 8 * asked.column,
                               !.across = TRUE]
              ELSE aim
    /\ UNCHANGED <<showing, asked, accesses>>

Astray == [aim EXCEPT !.across = FALSE, !.down = FALSE]
Access == accesses < MaxAccesses /\ beam.dot \in AccessDots /\ accesses' = accesses + 1

(* The scroll asked for by a byte written to $2005: across, then down; and to *)
(* $2006: the same fields, cut as the two bytes of an address.                *)
Scrolled(b) ==
    IF asked.second
    THEN [asked EXCEPT !.row = b \div 8, !.scan = b % 8, !.second = FALSE]
    ELSE [asked EXCEPT !.column = b \div 8, !.fine = b % 8, !.second = TRUE]
Addressed(b) ==
    IF asked.second
    THEN [asked EXCEPT !.column = b % 32, !.row = 8 * (@ \div 8) + (b \div 32), !.second = FALSE]
    ELSE [asked EXCEPT !.scan = (b \div 16) % 4, !.table = (b \div 4) % 4,
                       !.row = 8 * (b % 4) + (@ % 8), !.second = TRUE]

(* $2005: the two writes, which the toggle tells apart. *)
WriteScroll ==
    /\ Access
    /\ \E b \in ScrollBytes :
        /\ loopy' = IF ~loopy.w
                    THEN [loopy EXCEPT !.t = Put(@, 1, 32, b \div 8), !.x = b % 8, !.w = TRUE]
                    ELSE [loopy EXCEPT !.t = Put(Put(@, 32, 32, b \div 8), 4096, 8, b % 8),
                                       !.w = FALSE]
        /\ asked' = Scrolled(b)
    /\ UNCHANGED <<showing, beam, latched, shifter, aim>>

(* $2006: the second write moves v at once. *)
WriteAddress ==
    /\ Access
    /\ \E b \in AddressBytes :
        LET t == Put(loopy.t, 1, 256, b)
        IN  /\ asked' = Addressed(b)
            /\ IF ~loopy.w
               THEN /\ loopy' = [loopy EXCEPT !.t = Put(@, 256, 128, b % 64), !.w = TRUE]
                    /\ aim' = aim
               ELSE /\ loopy' = [loopy EXCEPT !.t = t, !.v = t, !.w = FALSE]
                    /\ aim' = Astray
    /\ UNCHANGED <<showing, beam, latched, shifter>>

(* $2007: an access leaves v one place, or one row, further on. *)
AccessData ==
    /\ Access
    /\ \E increment \in {1, 32} : loopy' = [loopy EXCEPT !.v = (@ + increment) % 32768]
    /\ aim' = Astray
    /\ UNCHANGED <<showing, beam, latched, shifter, asked>>

(* A slip: the pairs are not started over. *)
StatusKeepsToggle ==
    /\ Access
    /\ asked' = [asked EXCEPT !.second = FALSE]
    /\ UNCHANGED <<loopy, showing, beam, latched, shifter, aim>>

(* $2002: a read starts the pairs over. *)
ReadStatusToggle ==
    /\ Access
    /\ loopy' = [loopy EXCEPT !.w = FALSE] /\ asked' = [asked EXCEPT !.second = FALSE]
    /\ UNCHANGED <<showing, beam, latched, shifter, aim>>

(* $2000: the nametable bits of t. *)
WriteNametable ==
    /\ Access
    /\ \E table \in 0 .. 3 :
        loopy' = [loopy EXCEPT !.t = Put(@, 1024, 4, table)] /\ asked' = [asked EXCEPT !.table = table]
    /\ UNCHANGED <<showing, beam, latched, shifter, aim>>

(* $2001: rendering stops, or begins, wherever the beam is. *)
WriteShowing ==
    /\ Access
    /\ showing' = ~showing /\ aim' = Astray
    /\ UNCHANGED <<loopy, beam, latched, shifter, asked>>

ScrollNext ==
    \/ Dot \/ AcrossGap
    \/ WriteScroll \/ WriteAddress \/ AccessData \/ ReadStatusToggle \/ WriteNametable \/ WriteShowing

ScrollSpec == ScrollInit /\ [][ScrollNext]_scrollVars

-----------------------------------------------------------------------------
(* Properties. *)

(* Where a pixel lies in the plane of the four nametables, 512 by 480. *)
PlaneOf(pixel) ==
    <<256 * Across(pixel[1]) + 8 * CoarseX(pixel[1]) + pixel[2],
      240 * FineDown(pixel[1]) + 8 * CoarseY(pixel[1]) + FineY(pixel[1])>>

(* The dot just run drew a pixel, of this column. *)
Drawing == beam.line < Lines /\ beam.dot \in 2 .. Copying
Column == beam.dot - 2

(* The picture is the window of the plane that the game's writes ask for:     *)
(* every pixel drawn lies right of the place asked for across when the line's *)
(* fetches began, and below the place asked for down when the frame did,      *)
(* wrapping over the edges, whatever the game writes to $2000, $2002, $2005   *)
(* and the first half of $2006 meanwhile; a write comes into force on the     *)
(* next line, or on the next frame.  The parts of a frame after the game      *)
(* moved v itself or switched rendering are its own affair, until the copies  *)
(* of a line and of a frame set v right (run_fetch_pipeline, output_pixel).   *)
PictureFollowsScroll ==
    Drawing /\ showing /\ aim.across /\ aim.down =>
        LET pixel == shifter[1 + loopy.x]
        IN  /\ pixel \notin {Blank, Torn}
            /\ PlaneOf(pixel) = <<(aim.x + asked.fine + Column) % 512, (aim.y + beam.line) % 480>>

=============================================================================
