----------------------------- MODULE Compositor -----------------------------
(* The compositor (ui/compositor.rs), the mouse (ui/input.rs) and the shell's *)
(* surfaces (ui/shell.rs).  A pixel of a buffer is what was drawn there:      *)
(* "plain", or the decoration "active" or "idle"; a pixel of the frame is     *)
(* the surface it was copied from, with that.  SurfaceBoxes, the title bar's height  *)
(* and the screen are small.  composite_frame and the mouse have no caller    *)
(* at this commit: they are the interface as its comments describe it.       *)
EXTENDS Integers, Sequences, FiniteSetsExt

CONSTANTS ScreenWidth, ScreenHeight, \* SCREEN_WIDTH, SCREEN_HEIGHT
          BarHeight,    \* TASKBAR_HEIGHT
          SurfaceBoxes, \* rectangles a program asks for: [x, y, w, h]; of no height or
                        \* width the border's place, h - 1 or w - 1, is below zero
          Moves,        \* how far the mouse goes at once: << dx, dy >>
          LayerSpan,    \* z values of a layer (1000)
          EventLimit, EventsDropped, \* 256 events, of which the first 64 go
          FrameTicks,   \* 16 ticks between frames
          MaxOperations, MaxFrameTick \* bounds

ASSUME CompositorAssumption ==
  /\ ScreenWidth \in Nat \ {0} /\ ScreenHeight \in Nat \ {0}
  /\ BarHeight \in 1 .. ScreenHeight - 1
  /\ LayerSpan \in Nat \ {0} /\ EventLimit \in Nat \ {0} /\ EventsDropped \in 1 .. EventLimit
  /\ SurfaceBoxes \subseteq [x : Int, y : Int, w : Nat \ {0}, h : Nat \ {0}]
  /\ Moves \subseteq Int \X Int
  /\ MaxOperations \in Nat /\ MaxFrameTick \in Nat

VARIABLES
  surfaces,   \* surfaces: id -> Surface
  nextSurface,\* NEXT_SURFACE_ID
  damage,     \* is damage_regions not empty
  frame,      \* the framebuffer's surface at each pixel; << >> before the first
  shownAt,    \* last_frame_tick
  mouse,      \* mouse: [x, y, events, pushed], the events as their numbers
  operations  \* history: calls of programs and of the mouse

compositorVars == << surfaces, nextSurface, damage, frame, shownAt, mouse, operations >>

Layers == [background |-> 0, desktop |-> 1, windows |-> 2, floating |-> 3, overlay |-> 4]
Pixels == (0 .. ScreenWidth - 1) \X (0 .. ScreenHeight - 1)

----------------------------------------------------------------------------
(* Surface::new, mapped by create_surface: only windows are decorated. *)
SurfaceNew(box, layer) ==
  [box |-> box, layer |-> layer, z |-> 0, dirty |-> TRUE, focused |-> FALSE,
   decorated |-> layer = "windows",
   buffer |-> [i \in 0 .. Max({box.w * box.h, 1}) - 1 |-> "plain"]]

CompositorInit ==
  /\ surfaces = [id \in {1, 2} |->
       IF id = 1 THEN SurfaceNew([x |-> 0, y |-> 0, w |-> ScreenWidth,
                                  h |-> ScreenHeight - BarHeight], "background")
       ELSE SurfaceNew([x |-> 0, y |-> ScreenHeight - BarHeight, w |-> ScreenWidth,
                        h |-> BarHeight], "overlay")]
  /\ nextSurface = 3 /\ damage = TRUE /\ frame = << >> /\ shownAt = 0 /\ operations = 0
  /\ mouse = [x |-> ScreenWidth \div 2, y |-> ScreenHeight \div 2, events |-> << >>, pushed |-> 0]

(* invalidate_all *)
Dirtied(all) == [id \in DOMAIN all |-> [all[id] EXCEPT !.dirty = TRUE]]

Operates == operations < MaxOperations /\ operations' = operations + 1

CreateSurface(box) ==
  /\ Operates
  /\ surfaces' = Dirtied([id \in DOMAIN surfaces \cup {nextSurface} |->
       IF id = nextSurface THEN SurfaceNew(box, "windows") ELSE surfaces[id]])
  /\ nextSurface' = nextSurface + 1 /\ damage' = TRUE
  /\ UNCHANGED << frame, shownAt, mouse >>

DestroySurface(id) ==
  /\ Operates
  /\ surfaces' = IF id \in DOMAIN surfaces
                 THEN Dirtied([k \in DOMAIN surfaces \ {id} |-> surfaces[k]]) ELSE surfaces
  /\ damage' = (damage \/ id \in DOMAIN surfaces)
  /\ UNCHANGED << nextSurface, frame, shownAt, mouse >>

MoveSurface(id, x, y) ==
  /\ Operates /\ id \in DOMAIN surfaces
  /\ surfaces' = Dirtied([surfaces EXCEPT ![id].box.x = x, ![id].box.y = y])
  /\ damage' = TRUE
  /\ UNCHANGED << nextSurface, frame, shownAt, mouse >>

\* The focused surface is not marked for drawing.
FocusedClean(all, id) ==
  [k \in DOMAIN all |-> IF k = id THEN [all[k] EXCEPT !.focused = TRUE, !.z = @ + 1]
                        ELSE [all[k] EXCEPT !.focused = FALSE]]

(* focus_surface: every other one loses it, and is not drawn again for that. *)
Focused(all, id) ==
  [k \in DOMAIN all |-> IF k = id THEN [all[k] EXCEPT !.focused = TRUE, !.z = @ + 1, !.dirty = TRUE]
                        ELSE [all[k] EXCEPT !.focused = FALSE]]

FocusSurface(id) ==
  /\ Operates
  /\ surfaces' = Focused(surfaces, id)
  /\ UNCHANGED << nextSurface, damage, frame, shownAt, mouse >>

----------------------------------------------------------------------------
(* Rect::contains, and surface_at: of the surfaces that cover a point the     *)
(* first in descending order, which a stable sort leaves as the lowest id.   *)
Covers(s, x, y) ==
  /\ x >= s.box.x /\ x < s.box.x + s.box.w /\ y >= s.box.y /\ y < s.box.y + s.box.h
Height(s) == Layers[s.layer] * LayerSpan + s.z
Under(x, y) == {id \in DOMAIN surfaces : Covers(surfaces[id], x, y)}

\* The first in ascending order.
LowestAt(x, y) ==
  CHOOSE id \in Under(x, y) : \A k \in Under(x, y) :
    Height(surfaces[id]) < Height(surfaces[k])
      \/ (Height(surfaces[id]) = Height(surfaces[k]) /\ id <= k)

SurfaceAt(x, y) ==
  CHOOSE id \in Under(x, y) : \A k \in Under(x, y) :
    Height(surfaces[id]) > Height(surfaces[k])
      \/ (Height(surfaces[id]) = Height(surfaces[k]) /\ id <= k)

(* push_event: the oldest go when there are too many. *)
Queued(m) ==
  LET longer == Append(m.events, m.pushed + 1) IN
  [m EXCEPT !.pushed = @ + 1,
            !.events = IF Len(longer) > EventLimit
                       THEN SubSeq(longer, EventsDropped + 1, Len(longer)) ELSE longer]

Clamp(v, low, high) == Max({low, Min({v, high})})

(* mouse_move: surface 0, the cursor's, does not exist. *)
MouseMove(dx, dy) ==
  /\ Operates
  /\ mouse' = Queued([mouse EXCEPT !.x = Clamp(@ + dx, 0, ScreenWidth - 1),
                                   !.y = Clamp(@ + dy, 0, ScreenHeight - 1)])
  /\ damage' = TRUE
  /\ UNCHANGED << surfaces, nextSurface, frame, shownAt >>

MouseClick ==
  /\ Operates
  /\ mouse' = Queued(mouse)
  /\ surfaces' = IF Under(mouse.x, mouse.y) = {} THEN surfaces
                 ELSE Focused(surfaces, SurfaceAt(mouse.x, mouse.y))
  /\ UNCHANGED << nextSurface, damage, frame, shownAt >>

----------------------------------------------------------------------------
(* draw_window_decoration: the title bar, here the first row, and the border. *)
Decoration(s) == IF s.focused THEN "active" ELSE "idle"
OnEdge(s, i) == LET x == i % s.box.w  y == i \div s.box.w
                IN x = 0 \/ y = 0 \/ x = s.box.w - 1 \/ y = s.box.h - 1
Decorated(s) ==
  [s EXCEPT !.buffer = [i \in DOMAIN @ |-> IF OnEdge(s, i) THEN Decoration(s) ELSE @[i]]]
Redrawn(s) == [(IF s.dirty /\ s.decorated THEN Decorated(s) ELSE s) EXCEPT !.dirty = FALSE]

(* The order surfaces are copied in: the one that is last is seen. *)
Before(a, b) == \/ Height(surfaces[a]) < Height(surfaces[b])
                \/ Height(surfaces[a]) = Height(surfaces[b]) /\ a < b
SeenAt(p) ==
  CHOOSE id \in Under(p[1], p[2]) : \A k \in Under(p[1], p[2]) \ {id} : Before(k, id)
PixelOf(s, p) == s.buffer[(p[2] - s.box.y) * s.box.w + (p[1] - s.box.x)]

Composed(all) ==
  [p \in Pixels |-> IF Under(p[1], p[2]) = {} THEN << 0, "plain" >>
                    ELSE << SeenAt(p), PixelOf(all[SeenAt(p)], p) >>]

(* render_tick: not before the last frame's time is over. *)
RenderTick(tick) ==
  /\ tick > shownAt /\ tick - shownAt >= FrameTicks /\ tick <= MaxFrameTick
  /\ surfaces' = [id \in DOMAIN surfaces |-> Redrawn(surfaces[id])]
  /\ frame' = Composed(surfaces') /\ damage' = FALSE /\ shownAt' = tick
  /\ UNCHANGED << nextSurface, mouse, operations >>

CompositorNext ==
  \/ \E box \in SurfaceBoxes : CreateSurface(box)
  \/ \E id \in 1 .. nextSurface : DestroySurface(id) \/ FocusSurface(id)
  \/ \E id \in DOMAIN surfaces, box \in SurfaceBoxes : MoveSurface(id, box.x, box.y)
  \/ \E d \in Moves : MouseMove(d[1], d[2])
  \/ MouseClick
  \/ \E tick \in 1 .. MaxFrameTick : RenderTick(tick)

CompositorSpec == CompositorInit /\ [][CompositorNext]_compositorVars

----------------------------------------------------------------------------
(* A queue of input keeps the latest events, in the order they came, and not  *)
(* more than its limit (push_event).                                         *)
CompositorTypeOK ==
  /\ Len(mouse.events) <= EventLimit
  /\ \A i \in DOMAIN mouse.events : mouse.events[i] = mouse.pushed - Len(mouse.events) + i
  /\ \A id \in DOMAIN surfaces :
       Cardinality(DOMAIN surfaces[id].buffer) = Max({1, surfaces[id].box.w * surfaces[id].box.h})

(* While nothing is damaged or dirty the frame has the surfaces where they    *)
(* are: every pixel shows the one that a click there would find, or one drawn *)
(* later at the same height, with nothing focused above it, and where it is   *)
(* the focused window not the look of another.  One way only: a surface that  *)
(* is no longer focused may still look active (LooksTrue) (composite_frame,   *)
(* surface_at, focus_surface).                                               *)
FrameTrue ==
  (frame # << >> /\ ~damage /\ \A id \in DOMAIN surfaces : ~surfaces[id].dirty) =>
    \A p \in Pixels : Under(p[1], p[2]) # {} =>
      LET id == frame[p][1] IN
      /\ id \in DOMAIN surfaces /\ Height(surfaces[id]) = Height(surfaces[SurfaceAt(p[1], p[2])])
      /\ \A k \in DOMAIN surfaces : surfaces[k].focused /\ k # id =>
           ~(Covers(surfaces[k], p[1], p[2]) /\ Height(surfaces[k]) > Height(surfaces[id]))
      /\ surfaces[id].focused /\ surfaces[id].decorated => frame[p][2] # "idle"

(* The other way, which the code does not keep: what looks active is the      *)
(* focused window.  focus_surface takes the focus of every other surface and  *)
(* marks only the one that gets it dirty.                                    *)
LooksTrue ==
  (frame # << >> /\ ~damage /\ \A id \in DOMAIN surfaces : ~surfaces[id].dirty) =>
    \A p \in Pixels : frame[p][2] = "active" =>
      frame[p][1] \in DOMAIN surfaces /\ surfaces[frame[p][1]].focused

(* No two surfaces are focused (focus_surface). *)
OneFocus == Cardinality({id \in DOMAIN surfaces : surfaces[id].focused}) <= 1
=============================================================================
