-------------------------------- MODULE Input --------------------------------
(***************************************************************************)
(* raylib's input (rcore.c, rcore_desktop_glfw.c, rgestures.h): the        *)
(* program polls once a frame, at the end of EndDrawing, and GLFW calls    *)
(* the callbacks there, one for each thing the user did.  A program may    *)
(* record its input as automation events and play them back later.         *)
(*                                                                         *)
(* `core` is CORE.Input and CORE.Window.shouldClose, `gestures` the global *)
(* GESTURES, `list` the automation events recorded.  `user` is what the    *)
(* user does, outside the program, and `frames` what the program could     *)
(* read in each frame that is over.  Time counts tenths of a second, a     *)
(* screen is 10 wide and high; the two points of touch screens, which the  *)
(* desktop does not report, are left out.                                  *)
(***************************************************************************)
EXTENDS Integers, Sequences, FiniteSets, SequencesExt

CONSTANTS
    Keys,           \* positive key codes
    LockKeys,       \* those of them that the keyboard locks (CAPS, NUM)
    Buttons,        \* of the mouse
    PadButtons,     \* of the one gamepad; a trigger among them counts as pressed beyond a tenth
    Places,         \* <<x, y>> of the mouse
    Middle,         \* of the window
    QueueSize,      \* MAX_KEY_PRESSED_QUEUE and MAX_CHAR_PRESSED_QUEUE
    Capacity,       \* of the list of events
    Pauses,         \* how long a frame takes
    MaxFrames,      \* bound: frames
    MaxEvents       \* bound: things the user does

ASSUME InputAssumption ==
    /\ LockKeys \subseteq Keys /\ Middle \in Places
    /\ IsFiniteSet(Keys) /\ IsFiniteSet(Buttons) /\ IsFiniteSet(PadButtons)
    /\ QueueSize \in Nat /\ Capacity \in Nat \ {0}
    /\ Pauses \subseteq Nat /\ MaxFrames \in Nat /\ MaxEvents \in Nat

VARIABLES core, gestures, list, user, frames, story

vars == <<core, gestures, list, user, frames, story>>

Origin == <<0, 0>>
Up(buttons) == [b \in buttons |-> FALSE]

\* The zeroed CORE.Input of a window that was just opened.
CoreInput ==
    [keys |-> [previous |-> Up(Keys), current |-> Up(Keys), repeated |-> {},
               queue |-> <<>>, chars |-> <<>>],
     mouse |-> [previous |-> Up(Buttons), current |-> Up(Buttons), wheel |-> 0, previousWheel |-> 0,
                position |-> Origin, previousPosition |-> Origin],
     touch |-> [previous |-> Up(Buttons), current |-> Up(Buttons), position |-> Origin],
     pad |-> [ready |-> FALSE, previous |-> Up(PadButtons), current |-> Up(PadButtons), last |-> "unknown"],
     closing |-> FALSE, shouldClose |-> FALSE]

NoPad == [ready |-> FALSE, down |-> {}, up |-> {}, pressed |-> {}, released |-> {}]

GesturesAtRest ==
    [current |-> "NONE", tapCounter |-> 0, downPosition |-> Origin, upPosition |-> Origin,
     eventTime |-> 0, startTime |-> 0]

\* "recorded" and "played" are the two lives of a program that tests itself.
Init ==
    /\ core = CoreInput
    /\ gestures = GesturesAtRest
    /\ list = <<>>
    /\ user = [keys |-> {}, locked |-> {}, buttons |-> {}, place |-> Origin, turned |-> 0,
               pad |-> [present |-> FALSE, mapped |-> TRUE, down |-> {}, seen |-> NoPad],
               pressed |-> <<>>, repeated |-> {}, read |-> 0, asksToClose |-> FALSE, from |-> Origin, left |-> MaxEvents]
    /\ frames = <<>>
    /\ story \in {[kind |-> k, at |-> "frame", now |-> 0, frame |-> 0] :
                     k \in {"used", "recorded"}}
-----------------------------------------------------------------------------
(* What a program asks about the frame it is in. *)

IsKeyPressed(key) == ~core.keys.previous[key] /\ core.keys.current[key]
IsKeyPressedRepeat(key) == key \in core.keys.repeated
IsKeyDown(key) == core.keys.current[key]
IsKeyReleased(key) == core.keys.previous[key] /\ ~core.keys.current[key]
IsKeyUp(key) == ~core.keys.current[key]

\* Touches count as buttons too.
IsMouseButtonPressed(b) ==
    \/ core.mouse.current[b] /\ ~core.mouse.previous[b]
    \/ core.touch.current[b] /\ ~core.touch.previous[b]

IsMouseButtonDown(b) == core.mouse.current[b] \/ core.touch.current[b]

IsMouseButtonReleased(b) ==
    \/ ~core.mouse.current[b] /\ core.mouse.previous[b]
    \/ ~core.touch.current[b] /\ core.touch.previous[b]

IsMouseButtonUp(b) == ~core.mouse.current[b] \/ ~core.touch.current[b]

GetMousePosition == core.mouse.position

GetMouseDelta == [i \in 1..2 |-> core.mouse.position[i] - core.mouse.previousPosition[i]]

GetMouseWheelMove == core.mouse.wheel

IsGamepadButtonPressed(b) == core.pad.ready /\ ~core.pad.previous[b] /\ core.pad.current[b]
IsGamepadButtonDown(b) == core.pad.ready /\ core.pad.current[b]
IsGamepadButtonReleased(b) == core.pad.ready /\ core.pad.previous[b] /\ ~core.pad.current[b]
IsGamepadButtonUp(b) == core.pad.ready /\ ~core.pad.current[b]

\* All of it that a recording is meant to bring back.
Answers ==
    [pressed |-> {k \in Keys : IsKeyPressed(k)}, down |-> {k \in Keys : IsKeyDown(k)},
     released |-> {k \in Keys : IsKeyReleased(k)}, up |-> {k \in Keys : IsKeyUp(k)},
     mouse |-> [b \in Buttons |-> <<IsMouseButtonPressed(b), IsMouseButtonDown(b),
                                    IsMouseButtonReleased(b), IsMouseButtonUp(b)>>],
     position |-> GetMousePosition, delta |-> GetMouseDelta]

PadAnswers ==
    [ready |-> core.pad.ready, down |-> {b \in PadButtons : IsGamepadButtonDown(b)},
     up |-> {b \in PadButtons : IsGamepadButtonUp(b)},
     pressed |-> {b \in PadButtons : IsGamepadButtonPressed(b)},
     released |-> {b \in PadButtons : IsGamepadButtonReleased(b)}]
-----------------------------------------------------------------------------
(* Gestures. *)

Square(n) == n * n

\* Squared, in tenths of the screen.
rgVector2Distance(p, q) == Square(q[1] - p[1]) + Square(q[2] - p[2])

\* The quarter the angle from p to q is in; the sides have 60 degrees, y points down.
SwipeDirection(p, q) ==
    LET x == q[1] - p[1]
        y == q[2] - p[2]
    IN  CASE 3 * Square(y) < Square(x) /\ x > 0 -> "SWIPE_RIGHT"
          [] 3 * Square(y) < Square(x) /\ x < 0 -> "SWIPE_LEFT"
          [] OTHER -> IF y < 0 THEN "SWIPE_UP" ELSE "SWIPE_DOWN"

Swipes == {"SWIPE_RIGHT", "SWIPE_LEFT", "SWIPE_UP", "SWIPE_DOWN"}

TapTimeout == 3
DragTimeout == 3

\* The faster a drag, the likelier a swipe: more than a fifth of the screen a second.
TouchDown(g, position, now) ==
    LET double == /\ g.current = "NONE" /\ g.tapCounter >= 1
                  /\ now - g.eventTime < TapTimeout /\ g.downPosition = position
    IN  [g EXCEPT !.current = IF double THEN "DOUBLETAP" ELSE "TAP",
                  !.tapCounter = IF double THEN 0 ELSE 1,
                  !.downPosition = position, !.upPosition = position,
                  !.eventTime = now, !.startTime = now]

TouchUp(g, position, now) ==
    LET up == IF g.current \in {"DRAG", "HOLD"} THEN position ELSE g.upPosition
        forceful == 25 * rgVector2Distance(g.downPosition, up) > Square(now - g.startTime)
    IN  [g EXCEPT !.upPosition = up,
                  !.current = IF forceful /\ g.current # "DRAG" THEN SwipeDirection(g.downPosition, up)
                              ELSE "NONE"]

\* Nothing in the code asks a hold to be reset (resetRequired stays false).
TouchMove(g, now) ==
    IF g.current = "HOLD" /\ now - g.eventTime > DragTimeout
      THEN [g EXCEPT !.eventTime = now, !.current = "DRAG"]
      ELSE g

ProcessGestureEvent(action, position) ==
    gestures' = CASE action = "DOWN" -> TouchDown(gestures, position, story.now)
                  [] action = "UP" -> TouchUp(gestures, position, story.now)
                  [] action = "MOVE" -> TouchMove(gestures, story.now)

UpdateGestures(g) ==
    [g EXCEPT !.current = CASE g.current \in {"TAP", "DOUBLETAP"} -> "HOLD"
                            [] g.current \in Swipes -> "NONE"
                            [] OTHER -> g.current]
-----------------------------------------------------------------------------
(* Recording: what EndDrawing writes down of the frame, while there is     *)
(* room for it.                                                            *)

Event(type, id) == [frame |-> story.frame, type |-> type, id |-> id]

When(condition, event) == IF condition THEN <<event>> ELSE <<>>

\* Only the way down, once: a key that comes up is left out.
WaysDown(up, down, states) ==
    FlattenSeq([i \in DOMAIN SetToSeq(DOMAIN states.current) |->
        LET b == SetToSeq(DOMAIN states.current)[i]
        IN  When(states.current[b], Event(down, b))])

\* Of every key or button its way up, once, and every frame it is down.
Changes(up, down, states) ==
    FlattenSeq([i \in DOMAIN SetToSeq(DOMAIN states.current) |->
        LET b == SetToSeq(DOMAIN states.current)[i]
        IN  When(states.previous[b] /\ ~states.current[b], Event(up, b))
              \o When(states.current[b], Event(down, b))])

RecordAutomationEvent ==
    LET events ==
            Changes("KEY_UP", "KEY_DOWN", core.keys)
              \o Changes("MOUSE_BUTTON_UP", "MOUSE_BUTTON_DOWN", core.mouse)
              \o When(core.mouse.position # core.mouse.previousPosition,
                      Event("MOUSE_POSITION", core.mouse.position))
              \o When(core.mouse.wheel # core.mouse.previousWheel,
                      Event("MOUSE_WHEEL_MOTION", core.mouse.wheel))
              \o Changes("TOUCH_UP", "TOUCH_DOWN", core.touch)
              \o When(core.touch.position # Origin, Event("TOUCH_POSITION", core.touch.position))
              \o Changes("GAMEPAD_BUTTON_UP", "GAMEPAD_BUTTON_DOWN", core.pad)
              \o When(gestures.current # "NONE", Event("GESTURE", gestures.current))
        room == Capacity - Len(list)
    IN  list \o SubSeq(events, 1, IF Len(events) < room THEN Len(events) ELSE room)
-----------------------------------------------------------------------------
(* A frame's end. *)

\* The gamepad's state has no callbacks; without a mapping GLFW reports nothing pressed.
PolledPad ==
    LET pad == user.pad
        current == [b \in PadButtons |-> pad.mapped /\ b \in pad.down]
    IN  IF ~pad.present THEN [core.pad EXCEPT !.ready = FALSE, !.last = "unknown"]
        ELSE [ready |-> TRUE, previous |-> core.pad.current, current |-> current,
              last |-> IF \E b \in PadButtons : current[b]
                         THEN CHOOSE b \in PadButtons : current[b] ELSE "unknown"]

\* PollInputEvents up to the call of glfwPollEvents.
PollInputEvents ==
    [core EXCEPT
        !.keys = [@ EXCEPT !.previous = core.keys.current, !.repeated = {},
                           !.queue = <<>>, !.chars = <<>>],
        !.mouse = [@ EXCEPT !.previous = core.mouse.current, !.previousWheel = core.mouse.wheel,
                            !.wheel = 0, !.previousPosition = core.mouse.position],
        !.touch = [@ EXCEPT !.previous = core.touch.current, !.position = core.mouse.position],
        !.pad = PolledPad]

EndDrawing ==
    /\ story.at = "frame"
    /\ story.frame < MaxFrames
    /\ list' = IF story.kind = "recorded" THEN RecordAutomationEvent ELSE list
    /\ frames' = CASE story.kind = "used" -> <<Answers>>
                   [] story.kind = "recorded" -> Append(frames, Answers)
                   [] story.kind = "played" -> frames
    /\ core' = PollInputEvents
    /\ gestures' = UpdateGestures(gestures)
    /\ \E pause \in Pauses : story' = [story EXCEPT !.at = "polling", !.now = @ + pause]
    /\ user' = [user EXCEPT !.pressed = <<>>, !.repeated = {}, !.read = 0, !.turned = 0,
                            !.asksToClose = FALSE, !.from = user.place, !.pad.seen = PadAnswers]

\* The rest of it; GLFW's own flag is taken back after it was read.
EndPoll ==
    /\ story.at = "polling"
    /\ core' = [core EXCEPT !.shouldClose = core.closing, !.closing = FALSE]
    /\ story' = [story EXCEPT !.at = IF story.kind = "played" THEN "playing" ELSE "frame",
                              !.frame = @ + 1]
    /\ UNCHANGED <<gestures, list, user, frames>>
-----------------------------------------------------------------------------
(* The callbacks, each for what the user did. *)

Does(change) ==
    /\ story.at = "polling" /\ story.kind # "played"
    /\ user.left > 0
    /\ user' = [change EXCEPT !.left = @ - 1]
    /\ UNCHANGED <<list, frames, story>>

\* A release is noted only while the queue has room.
KeyStuckWhenFull(keys, key, action, locked) ==
    LET room == Len(keys.queue) < QueueSize
    IN  [keys EXCEPT
            !.current[key] = \/ key \in LockKeys /\ locked
                             \/ action = "press"
                             \/ action = "release" /\ ~room
                             \/ action = "repeat" /\ @,
            !.queue = @ \o When(action = "press" /\ room, key)]

\* `locked` is the modifier that comes with the event.
KeyCallback(keys, key, action, locked) ==
    [keys EXCEPT
        !.current[key] = \/ key \in LockKeys /\ locked
                         \/ action = "press"
                         \/ action = "repeat" /\ @,
        !.repeated = @ \cup (IF action = "repeat" THEN {key} ELSE {}),
        !.queue = @ \o When(action = "press" /\ Len(@) < QueueSize, key)]

\* What a key writes comes after the key, pressed or repeated; here every key writes itself.
CharCallback(keys, codepoint) ==
    [keys EXCEPT !.chars = IF Len(@) < QueueSize THEN Append(@, codepoint) ELSE @]

UserTypes ==
    \E key \in Keys, action \in {"press", "release", "repeat"}, locked \in BOOLEAN :
        /\ (action = "press") # (key \in user.keys)
        /\ locked => key \in LockKeys
        /\ Does([user EXCEPT
              !.keys = CASE action = "press" -> @ \cup {key} [] action = "release" -> @ \ {key}
                         [] OTHER -> @,
              !.locked = IF locked THEN @ \cup {key} ELSE @ \ {key},
              !.pressed = @ \o When(action = "press", key),
              !.repeated = IF action = "repeat" THEN @ \cup {key} ELSE @])
        /\ LET keys == KeyCallback(core.keys, key, action, locked)
           IN  core' = [core EXCEPT !.keys = IF action = "release" THEN keys ELSE CharCallback(keys, key)]
        /\ UNCHANGED gestures

\* A press and release between two polls end in no UP.
ButtonsMissed(b, down) ==
    /\ core' = [core EXCEPT !.mouse.current[b] = down, !.touch.current[b] = down]
    /\ ProcessGestureEvent(CASE down /\ ~core.mouse.previous[b] -> "DOWN"
                             [] ~down /\ core.mouse.previous[b] -> "UP"
                             [] OTHER -> "MOVE", GetMousePosition)

\* A release of a press that was never polled is an UP as well, TouchAction's zero.
MouseButtonCallback(b, down) ==
    /\ core' = [core EXCEPT !.mouse.current[b] = down, !.touch.current[b] = down]
    /\ ProcessGestureEvent(IF down /\ ~core.mouse.previous[b] THEN "DOWN" ELSE "UP", GetMousePosition)

UserClicks ==
    \E b \in Buttons :
        LET down == b \notin user.buttons
        IN  /\ Does([user EXCEPT !.buttons = IF down THEN @ \cup {b} ELSE @ \ {b}])
            /\ MouseButtonCallback(b, down)

MouseCursorPosCallback(position) ==
    /\ core' = [core EXCEPT !.mouse.position = position, !.touch.position = position]
    /\ ProcessGestureEvent("MOVE", position)

UserMoves ==
    \E place \in Places \ {user.place} :
        Does([user EXCEPT !.place = place]) /\ MouseCursorPosCallback(place)

\* Two turns of the wheel in one poll: the later one is left.
MouseScrollCallback(offset) == core' = [core EXCEPT !.mouse.wheel = offset]

UserScrolls ==
    \E offset \in {-1, 1} : /\ Does([user EXCEPT !.turned = offset])
                            /\ MouseScrollCallback(offset)
                            /\ UNCHANGED gestures

\* The cross of the window (GLFW sets its flag itself) or the exit key.
UserCloses ==
    /\ core' = [core EXCEPT !.closing = TRUE]
    /\ Does([user EXCEPT !.asksToClose = TRUE])
    /\ UNCHANGED gestures

UserUsesPad ==
    /\ story.at = "frame" /\ user.left > 0
    /\ \/ \E b \in PadButtons :
            user' = [user EXCEPT !.left = @ - 1,
                                 !.pad.down = IF b \in @ THEN @ \ {b} ELSE @ \cup {b}]
       \/ user' = [user EXCEPT !.left = @ - 1, !.pad.present = ~@]
       \/ user' = [user EXCEPT !.left = @ - 1, !.pad.mapped = ~@]
    /\ UNCHANGED <<core, gestures, list, frames, story>>
-----------------------------------------------------------------------------
(* What the program changes. *)

GetKeyPressed ==
    /\ story.at = "frame" /\ core.keys.queue # <<>>
    /\ core' = [core EXCEPT !.keys.queue = Tail(@)]
    /\ user' = [user EXCEPT !.read = @ + 1]
    /\ UNCHANGED <<gestures, list, frames, story>>

GetCharPressed ==
    /\ story.at = "frame" /\ core.keys.chars # <<>>
    /\ core' = [core EXCEPT !.keys.chars = Tail(@)]
    /\ UNCHANGED <<gestures, list, user, frames, story>>

SetMousePosition(position) ==
    /\ core' = [core EXCEPT !.mouse.position = position, !.mouse.previousPosition = position]
    /\ user' = [user EXCEPT !.place = position, !.from = position]

\* EnableCursor too: both put the mouse in the middle.  Recordings leave it out.
DisableCursor ==
    /\ story.at = "frame" /\ story.kind = "used" /\ user.place # Middle
    /\ SetMousePosition(Middle)
    /\ UNCHANGED <<gestures, list, frames, story>>
-----------------------------------------------------------------------------
(* Playing the recording in a program that was started again.  As its      *)
(* documentation shows it, the program plays a frame's events after the    *)
(* poll that begins the frame, and nobody touches keys or mouse.           *)

StartPlaying ==
    /\ story.kind = "recorded" /\ story.at = "frame" /\ story.frame = MaxFrames
    /\ core' = CoreInput
    /\ gestures' = GesturesAtRest
    /\ user' = [user EXCEPT !.left = 0, !.pressed = <<>>, !.repeated = {}, !.read = 0, !.asksToClose = FALSE, !.turned = 0,
                            !.pad.seen = NoPad]
    /\ story' = [story EXCEPT !.kind = "played", !.frame = 0, !.at = "playing"]
    /\ UNCHANGED <<list, frames>>

Played(c, event) ==
    LET key == event.id
    IN  CASE event.type = "KEY_UP" -> [c EXCEPT !.keys.current[key] = FALSE]
          [] event.type = "KEY_DOWN" ->
               [c EXCEPT !.keys.current[key] = TRUE,
                         !.keys.queue = @ \o When(~c.keys.previous[key] /\ Len(@) < QueueSize, key)]
          [] event.type = "MOUSE_BUTTON_UP" -> [c EXCEPT !.mouse.current[event.id] = FALSE]
          [] event.type = "MOUSE_BUTTON_DOWN" -> [c EXCEPT !.mouse.current[event.id] = TRUE]
          [] event.type = "MOUSE_POSITION" -> [c EXCEPT !.mouse.position = event.id]
          [] event.type = "MOUSE_WHEEL_MOTION" -> [c EXCEPT !.mouse.wheel = event.id]
          [] event.type = "TOUCH_UP" -> [c EXCEPT !.touch.current[event.id] = FALSE]
          [] event.type = "TOUCH_DOWN" -> [c EXCEPT !.touch.current[event.id] = TRUE]
          [] event.type = "TOUCH_POSITION" -> [c EXCEPT !.touch.position = event.id]
          [] event.type = "GAMEPAD_BUTTON_UP" -> [c EXCEPT !.pad.current[event.id] = FALSE]
          [] event.type = "GAMEPAD_BUTTON_DOWN" -> [c EXCEPT !.pad.current[event.id] = TRUE]
          [] OTHER -> c

Gestured(g, event) == IF event.type = "GESTURE" THEN [g EXCEPT !.current = event.id] ELSE g

\* The events of this frame, one after the other.
PlayAutomationEvent ==
    /\ story.at = "playing"
    /\ LET played[n \in 0..Len(list)] ==
              IF n = 0 THEN [core |-> core, gestures |-> gestures]
              ELSE IF list[n].frame # story.frame THEN played[n - 1]
              ELSE [core |-> Played(played[n - 1].core, list[n]),
                    gestures |-> Gestured(played[n - 1].gestures, list[n])]
       IN  core' = played[Len(list)].core /\ gestures' = played[Len(list)].gestures
    /\ story' = [story EXCEPT !.at = "frame"]
    /\ UNCHANGED <<list, user, frames>>

Next ==
    \/ EndDrawing \/ EndPoll
    \/ UserTypes \/ UserClicks \/ UserMoves \/ UserScrolls \/ UserCloses \/ UserUsesPad
    \/ GetKeyPressed \/ GetCharPressed \/ DisableCursor
    \/ StartPlaying \/ PlayAutomationEvent

Spec == Init /\ [][Next]_vars
-----------------------------------------------------------------------------
\* What the poll just found of the gamepad, after what the program saw before.
PadFollows(now) ==
    LET pad == user.pad
        down == IF pad.mapped THEN pad.down ELSE {}
    IN  /\ now.ready = pad.present
        /\ now.down = IF pad.present THEN down ELSE {}
        /\ now.up = IF pad.present THEN PadButtons \ down ELSE {}
        /\ now.ready /\ pad.seen.ready =>
             now.pressed = down \ pad.seen.down /\ now.released = pad.seen.down \ down

(* The program sees what the user does: no key or button sticks or is lost *)
(* when a queue is full, a change is reported in one frame and only there, *)
(* the queue holds the keys of this poll in their order, the mouse is      *)
(* where it is and moved as far as the user moved it (putting it in the    *)
(* middle does not count), a wish to close is seen for one frame, and a     *)
(* gamepad's buttons change as the poll finds them.  Of the wheel, the last *)
(* turn before the poll is seen.                                           *)
InputFollowsTheUser ==
    story.kind # "played" =>
        LET keysDown == user.keys \cup user.locked
            known == Len(user.pressed) < QueueSize
            queued == SubSeq(user.pressed, 1, IF known THEN Len(user.pressed) ELSE QueueSize)
        IN  /\ Answers.down = keysDown /\ Answers.up = Keys \ keysDown
            /\ \A b \in Buttons : /\ IsMouseButtonDown(b) = (b \in user.buttons)
                                  /\ IsMouseButtonUp(b) = (b \notin user.buttons)
            /\ core.keys.queue = SubSeq(queued, user.read + 1, Len(queued))
            /\ GetMousePosition = user.place
            /\ GetMouseDelta = [i \in 1..2 |-> user.place[i] - user.from[i]]
            /\ story.at = "frame" /\ frames # <<>> =>
                 /\ Answers.pressed = keysDown \ Last(frames).down
                 /\ Answers.released = Last(frames).down \ keysDown
                 /\ core.shouldClose = user.asksToClose
            /\ {k \in Keys : IsKeyPressedRepeat(k)} = user.repeated
            /\ GetMouseWheelMove = user.turned
            /\ story.at = "polling" => PadFollows(PadAnswers)

(* A tap, a hold and a drag need a button that is down, however many       *)
(* presses and releases came between two polls.                            *)
GesturesNeedAButton ==
    gestures.current \in {"TAP", "DOUBLETAP", "HOLD", "DRAG"} /\ story.kind # "played" =>
        user.buttons # {}

(* A recording that is played gives the program, frame by frame, the same  *)
(* answers about keys, buttons and the mouse, up to the frame in which the *)
(* list of events was full.  (Wheel and gestures are not meant: a wheel    *)
(* that turns as much as in the frame before is not recorded, nor is the   *)
(* end of a gesture.)                                                      *)
ReplaysAsRecorded ==
    story.kind = "played" /\ story.at = "frame" /\ story.frame < MaxFrames
        /\ (Len(list) = Capacity => story.frame < Last(list).frame) =>
            Answers = frames[story.frame + 1]
=============================================================================
