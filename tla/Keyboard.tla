------------------------------ MODULE Keyboard ------------------------------
(***************************************************************************)
(* The PS/2 keyboard of input/keyboard.c.  The keyboard sends one byte for *)
(* a key that goes down and two for a key that goes up; the USART keeps    *)
(* two bytes and loses the next; keyboard_poll moves one byte at a time    *)
(* into a ring buffer like the one of storage.c (AudioRing), and only when *)
(* the main program asks for a key; keyboard_asc makes characters of scan  *)
(* codes, with two flags that live from call to call: keyb_shift and       *)
(* keyb_released.                                                          *)
(***************************************************************************)
EXTENDS AudioRing, SequencesExt

CONSTANTS
  FifoSize,  \* bytes the USART keeps, 2
  Key,       \* keys that have a character
  Mute,      \* keys that have none
  Shift,     \* the two shift keys
  MaxEvents  \* bound on the keys that go down or up

ASSUME KeyboardAssumption ==
  /\ FifoSize \in Nat \ {0} /\ MaxEvents \in Nat
  /\ Key \cap Mute = {} /\ Shift \cap (Key \cup Mute) = {}
  /\ "0xf0" \notin Key \cup Mute \cup Shift

Released == "0xf0"
ScanCode == Key \cup Mute \cup Shift \cup {Released}

VARIABLES
  wire,          \* bytes the keyboard has still to send
  fifo,          \* bytes in the USART
  ring,          \* keyb_buffer, keyb_start and keyb_end
  keyb_shift,
  keyb_released,
  asking,        \* is keyboard_asc under way?
  typed,         \* what keyboard_asc has returned, but for zeros
  meant,         \* what was typed on the keyboard
  held,          \* the shift keys that are down
  health,        \* "ok" until a byte is lost; then whether a shift key went
                 \* down, and up again, since the last loss
  events         \* keys that went down or up so far

device  == <<wire, held, meant, events>>
decoder == <<keyb_shift, keyb_released, asking, typed>>
keyVars == <<device, fifo, ring, decoder, health>>
-----------------------------------------------------------------------------
(* The keyboard and the USART.                                             *)

\* A key goes down, or repeats while it is down.  Only one shift key is held
\* at a time.
Press(k) ==
  /\ events < MaxEvents /\ events' = events + 1
  /\ k \in Shift => held \subseteq {k}
  /\ wire' = Append(wire, k)
  /\ meant' = IF k \in Key THEN Append(meant, <<k, held # {}>>) ELSE meant
  /\ held' = IF k \in Shift THEN {k} ELSE held
  /\ health' = IF k \in Shift /\ health = "lost" /\ wire = <<>> THEN "pressed" ELSE health
  /\ UNCHANGED <<fifo, ring, decoder>>

\* A key goes up.
Release(k) ==
  /\ events < MaxEvents /\ events' = events + 1
  /\ k \in Shift => k \in held
  /\ wire' = wire \o <<Released, k>>
  /\ held' = held \ {k}
  /\ health' = IF k \in Shift /\ health = "pressed" THEN "healed" ELSE health
  /\ UNCHANGED <<meant, fifo, ring, decoder>>

\* A byte arrives; the USART loses it when it has no room.
Receive ==
  /\ wire # <<>>
  /\ wire' = Tail(wire)
  /\ IF Len(fifo) < FifoSize
     THEN fifo' = Append(fifo, Head(wire)) /\ UNCHANGED health
     ELSE health' = "lost" /\ UNCHANGED fifo
  /\ UNCHANGED <<held, meant, events, ring, decoder>>

-----------------------------------------------------------------------------
(* keyboard.c.                                                             *)

\* What keyboard_poll makes of the ring, and of the USART.
Polled == IF fifo = <<>> THEN ring ELSE Stored(ring, Head(fifo))
FifoPolled == IF fifo = <<>> THEN fifo ELSE Tail(fifo)
HealthPolled == IF fifo # <<>> /\ AinFull(ring) THEN "lost" ELSE health

\* The poll of the prompts of load and save.
Poll ==
  /\ ~asking
  /\ ring' = Polled /\ fifo' = FifoPolled /\ health' = HealthPolled
  /\ UNCHANGED <<device, decoder>>

\* load, save, poke and as start from an empty buffer: what they skip counts
\* as lost.
Flush ==
  /\ ~asking
  /\ ring' = Flushed(ring)
  /\ health' = IF AinReady(ring) THEN "lost" ELSE health
  /\ UNCHANGED <<device, fifo, decoder>>

Ask ==
  /\ ~asking /\ asking' = TRUE
  /\ UNCHANGED <<device, fifo, ring, keyb_shift, keyb_released, typed, health>>

\* keyboard_asc returns; t is all that it has returned so far.
Answer(t) == asking' = FALSE /\ typed' = t

ShiftAfter_Toggle == ~keyb_shift
ShiftAfter == ~keyb_released

ReleasedAfterShift_Kept == keyb_released
ReleasedAfterShift == FALSE

ReleasedAfterKey_Kept == keyb_released
ReleasedAfterKey == FALSE

\* One turn of the loop of keyboard_asc: poll, take a scan code, decode it.
AscStep ==
  /\ asking
  /\ fifo' = FifoPolled /\ health' = HealthPolled
  /\ IF ~AinReady(Polled)
     THEN /\ ring' = Polled
          /\ Answer(typed)
          /\ UNCHANGED <<keyb_shift, keyb_released>>
     ELSE LET sc == Oldest(Polled)
          IN  /\ ring' = Taken(Polled)
              /\ \/ /\ sc = Released
                    /\ keyb_released' = TRUE
                    /\ UNCHANGED <<keyb_shift, asking, typed>>
                 \/ /\ sc \in Shift
                    /\ keyb_shift' = ShiftAfter
                    /\ keyb_released' = ReleasedAfterShift
                    /\ UNCHANGED <<asking, typed>>
                 \/ /\ sc \in Key \cup Mute
                    /\ keyb_released' = ReleasedAfterKey
                    /\ Answer(IF keyb_released \/ sc \in Mute
                              THEN typed ELSE Append(typed, <<sc, keyb_shift>>))
                    /\ UNCHANGED keyb_shift
  /\ UNCHANGED device

-----------------------------------------------------------------------------
KeyInit ==
  /\ wire = <<>> /\ fifo = <<>> /\ meant = <<>> /\ held = {} /\ events = 0
  /\ ring = [buf |-> [k \in Slots |-> Released], start |-> 0, end |-> 0]
  /\ keyb_shift = FALSE /\ keyb_released = FALSE
  /\ asking = FALSE /\ typed = <<>>
  /\ health = "ok"

Keyboard ==
  \/ \E k \in Key \cup Mute \cup Shift : Press(k) \/ Release(k)
  \/ Receive

Program == Poll \/ Flush \/ Ask \/ AscStep

KeyNext == Keyboard \/ Program

KeySpec == KeyInit /\ [][KeyNext]_keyVars

-----------------------------------------------------------------------------
(* Properties.                                                             *)

\* As long as nothing is lost, keyboard_asc returns the keys that were
\* pressed, in order and each once, capital if shift was down when the key
\* went down: keys going up are swallowed and never the next key.
TypedAsMeant == health = "ok" => IsPrefix(typed, meant)

Drained == wire = <<>> /\ fifo = <<>> /\ ~AinReady(ring) /\ ~asking

\* Nothing stays behind: when all bytes have been read, every key has been
\* returned.
NothingStaysBehind == Drained /\ health = "ok" => typed = meant

\* Lost bytes do not leave shift stuck for ever: once a shift key has gone
\* down and up again with nothing lost, keyb_shift and the keyboard agree.
ShiftRecovers ==
  Drained /\ health \in {"ok", "healed"} =>
    keyb_shift = (held # {}) /\ ~keyb_released
=============================================================================
