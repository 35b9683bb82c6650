--------------------------- MODULE TerminalFrame ---------------------------
(***************************************************************************)
(* How the terminal's screen and its Kitty pictures become the frame that  *)
(* the view draws: nativeUpdateRender, update_kitty_graphics and the cache *)
(* of bitmaps in ghostty_jni.cpp, RenderFrame.ensureCapacity and the       *)
(* callers in TerminalSession and TerminalView.onDraw.                     *)
(*                                                                         *)
(* The terminal emulator and its store of pictures belong to libghostty;   *)
(* they are an environment that does what its header allows: a picture has *)
(* a generation that is never 0 and never reused, and is known before its  *)
(* last byte has arrived.  A cell is reduced to its character; colours,    *)
(* styles and the geometry of a placement are copied like it.              *)
(***************************************************************************)
EXTENDS Integers, Sequences, FiniteSets, SequencesExt

CONSTANTS
  Images,         \* ids a program gives its pictures
  Shapes,         \* [w, h, format] of the pictures sent
  ScreenSizes,    \* <<rows, cols>> the view asks for
  Capacity,       \* RenderFrame.MAX_KITTY_PLACEMENTS (16)
  CacheLimit,     \* bitmaps kept by the session (2)
  MaxSide,        \* MAX_BITMAP_DIMENSION, and the bytes of a bitmap
  MaxGeneration   \* bound on the pictures sent

ASSUME FrameAssumption ==
  /\ {Capacity, CacheLimit, MaxSide, MaxGeneration} \subseteq Nat \ {0}
  /\ Shapes \subseteq [w : Nat \ {0}, h : Nat \ {0}, format : {"RGBA", "RGB", "GRAY_ALPHA", "GRAY"}]

VARIABLES
  screen,    \* the emulator: size, text, synchronized output, default colours
  asked,     \* TerminalSession.rows, cols
  apart,     \* (history) the emulator has had another size than that
  store,     \* its pictures by id
  placed,    \* ids of the placements inside the viewport, in the iterator's order
  versions,  \* (history) every picture ever sent, by generation
  quiet,     \* 1500 ms have passed since the PTY was last read
  cache,     \* session->kitty_bitmap_cache
  live,      \* bitmaps with a global reference
  shows,     \* the pixels of each bitmap
  frame,     \* the view's RenderFrame (history: taken, the screen it was copied from;
             \* resized, its size was changed since, without a copy)
  faults     \* (history) memory the code used wrongly

sizeVars == <<asked, apart>>
frameVars == <<screen, sizeVars, store, placed, versions, quiet, cache, live, shows, frame, faults>>

NoImage == [gen |-> 0]
NoBitmap == 0
Bitmaps == 1..(CacheLimit + 2 * Capacity)
Blank == " "
NoColors == [fg |-> "none", bg |-> "none"]  \* before the first frame

(***************************************************************************)
(* Pixels.  A byte of the picture of generation g is <<g, position>>.      *)
(***************************************************************************)
sourceBpp(format) ==
  CASE format = "RGBA" -> 4 [] format = "RGB" -> 3 [] format = "GRAY_ALPHA" -> 2 [] format = "GRAY" -> 1

Bytes(image) == [k \in 1..(image.w * image.h * sourceBpp(image.format)) |-> <<image.gen, k>>]

\* The four bytes of a pixel whose source begins after offset o
toRgba(format, src, o) ==
  CASE format = "RGBA" -> <<src[o + 1], src[o + 2], src[o + 3], src[o + 4]>>
    [] format = "RGB" -> <<src[o + 1], src[o + 2], src[o + 3], 255>>
    [] format = "GRAY_ALPHA" -> <<src[o + 1], src[o + 1], src[o + 1], src[o + 2]>>
    [] format = "GRAY" -> <<src[o + 1], src[o + 1], src[o + 1], 255>>

\* Row y of the bitmap is read at y * source_stride
copy_kitty_pixels_to_bitmap(image) ==
  LET src == Bytes(image)
      bpp == sourceBpp(image.format)
      stride == image.w * bpp
  IN [y \in 1..image.h |-> [x \in 1..image.w |-> toRgba(image.format, src, (y - 1) * stride + (x - 1) * bpp)]]

\* What the picture looks like: colour channel c of pixel <<x, y>>
Channel(image, x, y, c) ==
  LET bpp == sourceBpp(image.format)
      byte(k) == <<image.gen, bpp * (image.w * (y - 1) + (x - 1)) + k>>
      grey == bpp \in {1, 2}
  IN IF c = 4 THEN (IF bpp \in {2, 4} THEN byte(bpp) ELSE 255)
     ELSE byte(IF grey THEN 1 ELSE c)
Looks(image) == [y \in 1..image.h |-> [x \in 1..image.w |-> [c \in 1..4 |-> Channel(image, x, y, c)]]]

(***************************************************************************)
(* The cache.  A pass over the placements threads its state:               *)
(* [cache, live, shows, out, incomplete], out being the placements taken.  *)
(***************************************************************************)
NewEntry(id) == [image |-> id, w |-> 0, h |-> 0, gen |-> 0, bitmap |-> NoBitmap]
Find(entries, id) == SelectInSeq(entries, LAMBDA e : e.image = id)

\* A reference that nothing holds
create_argb_bitmap(st) ==
  CHOOSE b \in Bitmaps : /\ b \notin st.live
                         /\ \A i \in DOMAIN st.out : st.out[i].bitmap # b
                         /\ \A i \in DOMAIN frame.pictures : frame.pictures[i].bitmap # b

\* The entry of the id, made by dropping the oldest one when the cache is full
entryFor(st, id) ==
  IF Find(st.cache, id) # 0 THEN st
  ELSE IF Len(st.cache) < CacheLimit THEN [st EXCEPT !.cache = Append(@, NewEntry(id))]
  ELSE [st EXCEPT !.cache = Append(Tail(@), NewEntry(id)), !.live = @ \ {Head(st.cache).bitmap}]

\* bitmap_cache_for: the state it leaves and whether it has a bitmap;
\* failing: Bitmap.createBitmap throws
bitmap_cache_for(st, id, image, failing) ==
  IF image.w > MaxSide \/ image.h > MaxSide THEN <<st, FALSE>>
  ELSE
    LET s1 == entryFor(st, id)
        at == Find(s1.cache, id)
        e == s1.cache[at]
        resized == e.bitmap # NoBitmap /\ (e.w # image.w \/ e.h # image.h)
        s2 == IF resized THEN [s1 EXCEPT !.live = @ \ {e.bitmap}, !.cache[at].bitmap = NoBitmap,
                                         !.cache[at].gen = 0]
                         ELSE s1
        fresh == create_argb_bitmap(s2)
    IN IF s2.cache[at].bitmap # NoBitmap THEN <<s2, TRUE>>
       ELSE IF failing = "create" THEN <<s2, FALSE>>
       ELSE <<[s2 EXCEPT !.live = @ \cup {fresh}, !.shows[fresh] = <<>>,
                         !.cache[at] = [@ EXCEPT !.bitmap = fresh, !.w = image.w, !.h = image.h]], TRUE>>

\* Forgets to copy a picture whose bitmap is already there
placementStale(st, id, failing) ==
  LET image == store[id]
      got == bitmap_cache_for(st, id, image, failing)
      at == Find(got[1].cache, id)
      e == got[1].cache[at]
      s == IF e.gen = 0
           THEN [got[1] EXCEPT !.shows[e.bitmap] = copy_kitty_pixels_to_bitmap(image),
                               !.cache[at].gen = image.gen]
           ELSE got[1]
  IN IF Len(st.out) >= Capacity \/ image = NoImage THEN st
     ELSE IF ~image.ready THEN [st EXCEPT !.incomplete = TRUE]
     ELSE IF ~got[2] \/ (failing = "copy" /\ e.gen # image.gen) THEN [got[1] EXCEPT !.incomplete = TRUE]
     ELSE [s EXCEPT !.out = Append(@, [image |-> id, bitmap |-> e.bitmap, was |-> image.gen])]

\* One turn of the loop over the placements
placement(st, id, failing) ==
  LET image == store[id]
      got == bitmap_cache_for(st, id, image, failing)
      at == Find(got[1].cache, id)
      e == got[1].cache[at]
      s == IF e.gen # image.gen
           THEN [got[1] EXCEPT !.shows[e.bitmap] = copy_kitty_pixels_to_bitmap(image),
                               !.cache[at].gen = image.gen]
           ELSE got[1]
  IN IF Len(st.out) >= Capacity \/ image = NoImage THEN st
     ELSE IF ~image.ready THEN [st EXCEPT !.incomplete = TRUE]
     ELSE IF ~got[2] \/ (failing = "copy" /\ e.gen # image.gen) THEN [got[1] EXCEPT !.incomplete = TRUE]
     ELSE [s EXCEPT !.out = Append(@, [image |-> id, bitmap |-> e.bitmap, was |-> image.gen])]

Pass(failing) ==
  FoldLeft(LAMBDA st, id : placement(st, id, failing),
           [cache |-> cache, live |-> live, shows |-> shows, out |-> <<>>, incomplete |-> FALSE], placed)

\* The frame keeps its pictures: one is incomplete, or they are gone only now
keepsPictures(st) == st.incomplete \/ (st.out = <<>> /\ frame.pictures # <<>> /\ ~quiet)

\* The pictures of the new frame.  A reference deleted later in the pass is
\* given to SetObjectArrayElement all the same.
update_kitty_graphics(f, st) ==
  LET kept == keepsPictures(st)
      dead == {i \in DOMAIN st.out : st.out[i].bitmap \notin st.live}
  IN /\ cache' = st.cache
     /\ live' = st.live
     /\ shows' = st.shows
     /\ frame' = IF kept THEN f ELSE [f EXCEPT !.pictures = st.out]
     /\ faults' = IF kept \/ dead = {} THEN faults
                  ELSE faults \cup {"bitmap deleted"}

(***************************************************************************)
(* The text.                                                               *)
(***************************************************************************)
\* A code point above U+FFFF does not fit a jchar
showChar(cell) == IF cell = "astral" THEN "?" ELSE cell

\* Black text, or text like its background, becomes light on dark
defaultColors(colors) == IF colors.fg = colors.bg \/ colors.fg = "black" THEN [fg |-> "light", bg |-> "dark"] ELSE colors

\* The cell at 0-based <<r, c>>; the emulator may hand out fewer rows and cells
cellAt(s, r, c) ==
  IF r < Len(s.lines) /\ c < Len(s.lines[r + 1]) THEN showChar(s.lines[r + 1][c + 1]) ELSE Blank

\* idx = r * cols + c; what follows the last row keeps its value
copyRows(array, s) ==
  [i \in DOMAIN array |-> IF i <= s.rows * s.cols THEN cellAt(s, (i - 1) \div s.cols, (i - 1) % s.cols) ELSE array[i]]

\* New arrays when the old ones are too small for what Java takes the size to
\* be; dirty is the length of the arrays with one element for each row
ensureCapacity(f, size) ==
  [f EXCEPT !.rows = size.rows, !.cols = size.cols,
            !.array = IF Len(@) < size.rows * size.cols THEN [i \in 1..(size.rows * size.cols) |-> Blank] ELSE @,
            !.dirty = IF @ < size.rows THEN size.rows ELSE @]

\* nativeUpdateRender fills the arrays with the emulator's size, whatever
\* their length
drawn(f) ==
  [f EXCEPT !.rows = screen.rows, !.cols = screen.cols, !.array = copyRows(@, screen),
            !.colors = defaultColors(screen.colors), !.taken = screen, !.resized = FALSE]

\* TerminalView.onDraw -> updateRenderFrame -> nativeUpdateRender: nothing but
\* the capacity changes while a program synchronizes its output, or when the
\* render state cannot be updated.  What follows a wrong use of memory is not
\* modelled (the runtime aborts)
updateRenderFrame ==
  LET f == ensureCapacity(frame, asked)
      overrun == Len(f.array) < screen.rows * screen.cols \/ f.dirty < screen.rows
  IN /\ faults = {}
     /\ \/ /\ frame' = [f EXCEPT !.resized = @ \/ f.rows # f.taken.rows \/ f.cols # f.taken.cols]
           /\ UNCHANGED <<cache, live, shows, faults>>
        \/ /\ ~screen.sync /\ overrun
           /\ faults' = faults \cup {"array overrun"} /\ UNCHANGED <<frame, cache, live, shows>>
        \/ /\ ~screen.sync /\ ~overrun
           /\ \E failing \in {"nothing", "create", "copy"} : update_kitty_graphics(drawn(f), Pass(failing))
     /\ UNCHANGED <<screen, sizeVars, store, placed, versions, quiet>>

(***************************************************************************)
(* The program and the user.                                               *)
(***************************************************************************)
Active == quiet' = FALSE

\* The program draws n rows of m cells
drawText ==
  /\ \E n \in 0..screen.rows, m \in {1, screen.cols} :
       screen' = [screen EXCEPT !.lines = [i \in 1..n |-> [j \in 1..m |-> IF i = j THEN "a" ELSE "astral"]]]
  /\ Active /\ UNCHANGED <<sizeVars, store, placed, versions, cache, live, shows, frame, faults>>

synchronize ==
  /\ screen' = [screen EXCEPT !.sync = ~@]
  /\ Active /\ UNCHANGED <<sizeVars, store, placed, versions, cache, live, shows, frame, faults>>

setColors ==
  /\ \E fg \in {"black", "white"} : screen' = [screen EXCEPT !.colors.fg = fg]
  /\ Active /\ UNCHANGED <<sizeVars, store, placed, versions, cache, live, shows, frame, faults>>

\* The emulator at a new size crops or pads its rows, and ends synchronized
\* output
resized(size) ==
  [screen EXCEPT !.rows = size[1], !.cols = size[2], !.sync = FALSE,
                 !.lines = [i \in 1..(IF size[1] < Len(@) THEN size[1] ELSE Len(@)) |->
                              SubSeq(@[i], 1, IF size[2] < Len(@[i]) THEN size[2] ELSE Len(@[i]))]]

\* TerminalSession.resize keeps the size, nativeResize passes it on and does
\* not look at the result.  A size that is kept already goes through when the
\* cells have changed theirs
resize ==
  /\ \E size \in ScreenSizes :
       /\ asked' = [rows |-> size[1], cols |-> size[2]]
       /\ \/ screen' = resized(size) /\ UNCHANGED apart
          \/ UNCHANGED screen /\ apart' = TRUE
  /\ UNCHANGED <<store, placed, versions, quiet, cache, live, shows, frame, faults>>

\* The program switches between 132 and 80 columns (DEC mode 3)
changeColumns ==
  /\ \E size \in ScreenSizes : size[2] # screen.cols /\ screen' = resized(<<screen.rows, size[2]>>)
  /\ apart' = TRUE
  /\ Active /\ UNCHANGED <<asked, store, placed, versions, cache, live, shows, frame, faults>>

\* A picture begins: its size is known, its pixels are not
transmit ==
  /\ Len(versions) < MaxGeneration
  /\ \E id \in Images, shape \in Shapes :
       LET image == [gen |-> Len(versions) + 1, w |-> shape.w, h |-> shape.h, format |-> shape.format,
                     ready |-> FALSE]
       IN /\ store' = [store EXCEPT ![id] = image]
          /\ versions' = Append(versions, [image EXCEPT !.ready = TRUE] @@ [id |-> id])
  /\ Active /\ UNCHANGED <<screen, sizeVars, placed, cache, live, shows, frame, faults>>

lastChunk ==
  /\ \E id \in Images : /\ store[id] # NoImage /\ ~store[id].ready
                        /\ store' = [store EXCEPT ![id].ready = TRUE]
  /\ Active /\ UNCHANGED <<screen, sizeVars, placed, versions, cache, live, shows, frame, faults>>

deletePicture ==
  /\ \E id \in Images : /\ store[id] # NoImage
                        /\ store' = [store EXCEPT ![id] = NoImage]
                        /\ placed' = SelectSeq(placed, LAMBDA p : p # id)
  /\ Active /\ UNCHANGED <<screen, sizeVars, versions, cache, live, shows, frame, faults>>

place ==
  /\ Len(placed) <= Capacity
  /\ \E id \in Images : store[id] # NoImage /\ placed' = Append(placed, id)
  /\ Active /\ UNCHANGED <<screen, sizeVars, store, versions, cache, live, shows, frame, faults>>

unplace ==
  /\ placed # <<>>
  /\ placed' = Tail(placed)
  /\ Active /\ UNCHANGED <<screen, sizeVars, store, versions, cache, live, shows, frame, faults>>

\* last_pty_activity_ms is 1500 ms ago
goQuiet ==
  /\ ~quiet /\ quiet' = TRUE
  /\ UNCHANGED <<screen, sizeVars, store, placed, versions, cache, live, shows, frame, faults>>

FrameInit ==
  /\ \E size \in ScreenSizes :
       screen = [rows |-> size[1], cols |-> size[2], lines |-> <<>>, sync |-> FALSE,
                 colors |-> [fg |-> "white", bg |-> "black"]]
  /\ asked = [rows |-> screen.rows, cols |-> screen.cols] /\ apart = FALSE
  /\ store = [id \in Images |-> NoImage]
  /\ placed = <<>> /\ versions = <<>> /\ quiet = FALSE
  /\ cache = <<>> /\ live = {} /\ shows = [b \in Bitmaps |-> <<>>]
  /\ frame = [rows |-> screen.rows, cols |-> screen.cols, array |-> <<>>, dirty |-> 0, taken |-> screen,
              colors |-> NoColors, pictures |-> <<>>, resized |-> FALSE]
  /\ faults = {}

TextNext == updateRenderFrame \/ drawText \/ synchronize \/ setColors \/ resize \/ changeColumns
PictureNext == updateRenderFrame \/ transmit \/ lastChunk \/ deletePicture \/ place \/ unplace \/ goQuiet
FrameNext == TextNext \/ PictureNext

FrameSpec == FrameInit /\ [][FrameNext]_frameVars

(***************************************************************************)
(* Properties.                                                             *)
(***************************************************************************)
\* The cache of bitmap_cache_for and the frame it feeds are within their
\* limits, and the frame names pictures and bitmaps that exist.
FrameTypeOK ==
  /\ Len(cache) <= CacheLimit
  /\ \A i \in DOMAIN cache : /\ cache[i].image \in Images
                             /\ cache[i].bitmap \in Bitmaps \cup {NoBitmap}
                             /\ cache[i].gen \in 0..Len(versions)
  /\ Len(frame.pictures) <= Capacity
  /\ \A i \in DOMAIN frame.pictures : frame.pictures[i].bitmap \in Bitmaps
  /\ live \subseteq Bitmaps /\ quiet \in BOOLEAN

\* The frame onDraw paints is the screen as it was at one moment, also behind
\* short rows and after resizes, in colours that can be read; unless its size
\* was changed since, while the program synchronized its output.
FrameShowsScreen ==
  LET s == frame.taken
  IN frame.colors # NoColors /\ ~frame.resized
     => /\ frame.rows = s.rows /\ frame.cols = s.cols
        /\ \A r \in 0..(s.rows - 1), c \in 0..(s.cols - 1) :
             frame.array[r * s.cols + c + 1] =
               IF r >= Len(s.lines) \/ c >= Len(s.lines[r + 1]) THEN Blank
               ELSE IF s.lines[r + 1][c + 1] = "a" THEN "a" ELSE "?"
        /\ frame.colors.fg # frame.colors.bg

\* nativeUpdateRender, which writes as many cells as the emulator has, never
\* writes behind the end of the Java arrays it holds with
\* GetPrimitiveArrayCritical, which are as long as TerminalSession believes:
\* whatever sizes came before, as long as the emulator's is the one it was
\* asked for (nativeResize does not look whether it was taken).
ArraysFit == "array overrun" \in faults => apart

\* Every global reference to a bitmap is held by the cache: none is leaked
\* when pictures change their size or push each other out (the cap on memory
\* that bitmap_cache_for promises).
NoBitmapLeaks == live = {cache[i].bitmap : i \in DOMAIN cache} \ {NoBitmap}

\* What a placement of the frame shows is its own picture, converted to RGBA,
\* in the version that the frame was made with or a newer one: never another
\* picture, an empty bitmap or a mixture, however pictures are sent again,
\* resized, deleted and evicted.
PictureIsItsOwn ==
  \A i \in DOMAIN frame.pictures :
    LET p == frame.pictures[i]
    IN \E g \in p.was..Len(versions) : versions[g].id = p.image /\ shows[p.bitmap] = Looks(versions[g])

\* No bitmap is put in the frame after its reference was deleted
\* ("Bitmaps are owned and reused by the native session", RenderFrame.java).
DrawnBitmapAlive == "bitmap deleted" \notin faults

\* The frame on screen is right, text and pictures, and costs no more memory
\* than the cache allows.
FrameSound == FrameTypeOK /\ FrameShowsScreen /\ ArraysFit /\ NoBitmapLeaks /\ PictureIsItsOwn
=============================================================================
