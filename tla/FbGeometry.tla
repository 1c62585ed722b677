----------------------------- MODULE FbGeometry -----------------------------
(***************************************************************************)
(* How the framebuffer backend of the terminal sets itself up (fb.c,       *)
(* flanterm_fb_init with the built-in font and no allocator, as the kernel *)
(* calls it): the checks of its arguments, the limit the static pool puts  *)
(* on the size of the screen, the bump allocator, the grid of cells and    *)
(* the place of each cell among the pixels for every rotation.             *)
(*                                                                         *)
(* Lengths are pixels and bytes.  size_t ends at SizeMax, the colour and   *)
(* text state of the context is in Terminal.                               *)
(***************************************************************************)
EXTENDS Integers

CONSTANTS SizeMax,     \* SIZE_MAX
          CtxBytes,    \* sizeof(struct flanterm_fb_context)
          Builds,      \* [pool, aw, ah, base]: pool size, aspect ratio, address mod 16
          Calls,       \* the arguments of flanterm_fb_init
          MaxK         \* bound on the number of steps of the search for a limit

CellBytes == 16 + 32 + 8     \* a cell, a queue item, a pointer to one

(* A block of the pool may be aligned, MaxK steps are as many as a search  *)
(* needs, and the glyphs of a scale have sizes.                            *)
ASSUME GeometryAssumption ==
    /\ SizeMax \in Nat \ {0} /\ CtxBytes \in Nat /\ MaxK \in Nat
    /\ Builds \subseteq [pool: Nat, aw: Nat \ {0}, ah: Nat \ {0}, base: 0 .. 15]
    /\ \A b \in Builds: b.pool >= 16 /\ b.pool < (MaxK \div 16) * (MaxK \div 16) * CellBytes
    /\ Calls \subseteq [width: 0 .. SizeMax, height: 0 .. SizeMax, pitch: 0 .. SizeMax, margin: 0 .. SizeMax,
                       scale: 0 .. SizeMax \div 16, rotation: {0, 90, 180, 270},
                       mask: [size: Nat, shift: Nat, equal: BOOLEAN]]

VARIABLES build,       \* how the backend was compiled and placed
          pool,        \* [ptr, added, instance]
          area,        \* the geometry of the live context, or NoArea
          outcome      \* why the last call of flanterm_fb_init ended
geometryVars == <<build, pool, area, outcome>>

NoArea == [cols |-> 0]
FontGlyphs == 256
FontBits == FontGlyphs * 16
FontBool == FontGlyphs * 16 * 9
FixedBytes == CtxBytes + FontBits + FontBool + 7 * 16

mul_size_overflow(a, b) == a # 0 /\ b > SizeMax \div a

(* The pool: 16 bytes alignment of the start and of every block.  A block  *)
(* that does not fit is NULL.                                              *)
bump_alloc(p, s) ==
    LET start == IF p.added THEN p.ptr ELSE p.ptr + ((16 - build.base) % 16)
        size == ((s + 15) \div 16) * 16
        held == [p EXCEPT !.added = TRUE, !.ptr = start]
    IN  IF p.null \/ start + size > build.pool THEN [held EXCEPT !.null = TRUE]
        ELSE [held EXCEPT !.ptr = start + size]

Gcd(a, b) == CHOOSE d \in 1 .. a: /\ a % d = 0 /\ b % d = 0
                                  /\ \A e \in d + 1 .. a: a % e # 0 \/ b % e # 0

CapCells == IF build.pool > FixedBytes THEN (build.pool - FixedBytes) \div CellBytes ELSE 0

(* Mutant: the space of the map is forgotten.                              *)
MutCellsFit(cols, rows) == cols * rows * 48 <= CapCells * CellBytes
CellsFit(cols, rows) == cols * rows <= CapCells

(* The search for the largest screen of the aspect ratio whose cells fit:  *)
(* it goes up one step at a time and stops before the first that does not. *)
StepsThatFit(aw, ah) ==
    LET fits(j) == CellsFit((aw * j) \div 9, (ah * j) \div 16)
    IN  IF CapCells = 0 THEN 0
        ELSE CHOOSE j \in 0 .. MaxK: ~fits(j + 1) /\ \A i \in 1 .. j: fits(i)

bump_pool_limits ==
    LET d == Gcd(build.aw, build.ah)
        aw == build.aw \div d
        ah == build.ah \div d
    IN  [w |-> aw * StepsThatFit(aw, ah), h |-> ah * StepsThatFit(aw, ah)]

-----------------------------------------------------------------------------
Turned(a) == a.rotation \in {90, 270}

(* The arguments that are refused before anything is allocated.            *)
Refused(a) ==
    \/ a.pitch % 4 # 0 \/ mul_size_overflow(a.width, 4) \/ a.pitch \div 4 < a.width
    \/ a.mask.size < 8 \/ ~a.mask.equal
    \/ a.mask.shift + a.mask.size > 32
    \/ pool.instance

ScaleOf(w, h, scale) ==
    IF scale # 0 THEN scale
    ELSE IF w >= 5120 /\ h >= 2880 THEN 4 ELSE IF w >= 2560 /\ h >= 1440 THEN 2 ELSE 1

(* The logical screen: turned, limited by the pool, and then centred.  x   *)
(* and y are the physical column and row of its first pixel.               *)
Centred(a, limit) ==
    LET w == IF Turned(a) THEN a.height ELSE a.width
        h == IF Turned(a) THEN a.width ELSE a.height
        lw == IF w > limit.w THEN limit.w ELSE w
        lh == IF h > limit.h THEN limit.h ELSE h
        dx == w \div 2 - lw \div 2
        dy == h \div 2 - lh \div 2
    IN  [w |-> lw, h |-> lh, scale |-> ScaleOf(w, h, a.scale),
         x |-> IF Turned(a) THEN dy ELSE dx, y |-> IF Turned(a) THEN dx ELSE dy]
Limited(a) == Centred(a, bump_pool_limits)

(* The glyph cells of what is left inside the margin, and where they start.*)
Grid(a, s) ==
    LET gw == 9 * s.scale
        gh == 16 * s.scale
        inner(n) == n - 2 * a.margin
    IN  [cols |-> inner(s.w) \div gw, rows |-> inner(s.h) \div gh, gw |-> gw, gh |-> gh,
         ox |-> a.margin + ((inner(s.w) % gw) \div 2), oy |-> a.margin + ((inner(s.h) % gh) \div 2),
         w |-> s.w, h |-> s.h, x |-> s.x, y |-> s.y, rotation |-> a.rotation,
         width |-> a.width, height |-> a.height]

TooSmall(a, g) == a.margin * 2 >= g.w \/ a.margin * 2 >= g.h \/ g.cols = 0 \/ g.rows = 0

GeometryInit ==
    /\ build \in Builds
    /\ pool = [ptr |-> 0, added |-> FALSE, instance |-> FALSE, null |-> FALSE]
    /\ area = NoArea /\ outcome = "none"

(* The pool after the context, after the fonts and after the cells.        *)
ContextPool == bump_alloc(pool, CtxBytes)
FontPool == bump_alloc(bump_alloc(ContextPool, FontBits), FontBool)
CellPool(g) ==
    LET n == g.cols * g.rows
    IN  bump_alloc(bump_alloc(bump_alloc(FontPool, 16 * n), 32 * n), 8 * n)
(* How an attempt ends, in the order of the tests.                         *)
Ended(a, g) ==
    IF Refused(a) THEN "refused" ELSE IF FontPool.null THEN "memory"
    ELSE IF TooSmall(a, g) THEN "small" ELSE IF CellPool(g).null THEN "memory"
    ELSE "done"
(* On failure the pool is reset, unless not even the context was           *)
(* allocated.                                                              *)
Attempt(a, g) ==
    /\ outcome' = Ended(a, g)
    /\ area' = IF outcome' = "done" THEN g ELSE area
    /\ pool' = CASE outcome' = "refused" -> pool
                 [] outcome' = "done" -> [CellPool(g) EXCEPT !.instance = TRUE]
                 [] OTHER -> IF ContextPool.null THEN [ContextPool EXCEPT !.null = FALSE]
                             ELSE [pool EXCEPT !.ptr = 0, !.added = FALSE]
    /\ UNCHANGED build
FbInit(a) == Attempt(a, Grid(a, Limited(a)))

(* flanterm_fb_deinit without a free function, as the kernel calls it.     *)
FbDeinit ==
    /\ area # NoArea
    /\ pool' = [ptr |-> 0, added |-> FALSE, instance |-> FALSE, null |-> FALSE]
    /\ area' = NoArea /\ outcome' = "none"
    /\ UNCHANGED build

(* A second call is refused, whatever its arguments are.                   *)
GeometryNext ==
    \/ \E a \in IF pool.instance THEN {CHOOSE a \in Calls: TRUE} ELSE Calls: FbInit(a)
    \/ FbDeinit

GeometrySpec == GeometryInit /\ [][GeometryNext]_geometryVars

-----------------------------------------------------------------------------
(* The physical place of the first pixel of a cell, and the steps from one *)
(* pixel of a glyph to the next across and down: the four rotations of the *)
(* plot functions, from the first pixel of the area.                       *)
Dest(g, x, y) ==
    CASE g.rotation = 0 -> [x |-> g.x + x, y |-> g.y + y]
      [] g.rotation = 90 -> [x |-> g.x + g.h - 1 - y, y |-> g.y + x]
      [] g.rotation = 180 -> [x |-> g.x + g.w - 1 - x, y |-> g.y + g.h - 1 - y]
      [] OTHER -> [x |-> g.x + y, y |-> g.y + g.w - 1 - x]
Stride(g) ==
    CASE g.rotation = 0 -> [inner |-> <<1, 0>>, outer |-> <<0, 1>>]
      [] g.rotation = 90 -> [inner |-> <<0, 1>>, outer |-> <<-1, 0>>]
      [] g.rotation = 180 -> [inner |-> <<-1, 0>>, outer |-> <<0, -1>>]
      [] OTHER -> [inner |-> <<0, -1>>, outer |-> <<1, 0>>]
Pixel(g, cx, cy, gx, gy) ==
    LET d == Dest(g, g.ox + cx * g.gw, g.oy + cy * g.gh)
        s == Stride(g)
    IN  [x |-> d.x + gx * s.inner[1] + gy * s.outer[1],
         y |-> d.y + gx * s.inner[2] + gy * s.outer[2]]

(* Every pixel of every cell lies in the framebuffer, turned, limited and  *)
(* centred as it may be: its extreme cells have their extreme pixels       *)
(* inside.  A set-up fails for lack of memory only when the pool is too    *)
(* small for the fonts: the limit keeps the rest of it within the pool.    *)
PlacementSound ==
    /\ area # NoArea =>
         \A cx \in {0, area.cols - 1}, cy \in {0, area.rows - 1},
            gx \in {0, area.gw - 1}, gy \in {0, area.gh - 1}:
            LET p == Pixel(area, cx, cy, gx, gy)
            IN  0 <= p.x /\ p.x < area.width /\ 0 <= p.y /\ p.y < area.height
    /\ outcome = "memory" => build.pool < FixedBytes
    /\ pool.ptr <= build.pool
=============================================================================
