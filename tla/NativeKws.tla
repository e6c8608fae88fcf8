----------------------------- MODULE NativeKws ------------------------------
(***************************************************************************)
(* src/src/frontend/soundbox/event_dispatcher.cpp: which lines of the       *)
(* recogniser of the device are a wake-up.  A text is a sequence of bytes,  *)
(* UTF-8 where it comes from the device; of the symbols beyond ASCII two    *)
(* are kept.  The dispatcher keeps no state but its triggers.              *)
(***************************************************************************)
EXTENDS Integers, Sequences, SequencesExt

(* Mutant: every character beyond ASCII has two bytes. *)
Utf8CharLengthTwo(lead) == IF lead \in 192 .. 247 THEN 2 ELSE 1

Utf8CharLength(lead) ==
  CASE lead \in 192 .. 223 -> 2
    [] lead \in 224 .. 239 -> 3
    [] lead \in 240 .. 247 -> 4
    [] OTHER -> 1

Spaces == (9 .. 13) \cup {32}
Punctuation == (33 .. 47) \cup (58 .. 64) \cup (91 .. 96) \cup (123 .. 126)

IsIgnoredNativeKwsSymbol(ch) ==
  \/ Len(ch) = 1 /\ ch[1] \in Spaces \cup Punctuation
  \/ ch \in { <<227, 128, 130>>, <<194, 183>> }

(* One character after the other from the position it begins at, the last of *)
(* which may be cut off.                                                    *)
NormalizeNativeKwsText(text) ==
  LET last(p) == p + Utf8CharLength(text[p]) - 1
      end(p) == IF last(p) > Len(text) THEN Len(text) ELSE last(p)
      kept(ch) == IF IsIgnoredNativeKwsSymbol(ch) THEN <<>> ELSE ch
      step(s) ==
        IF s.pos > Len(text) THEN s
        ELSE [pos |-> end(s.pos) + 1,
              normalized |-> s.normalized \o kept(SubSeq(text, s.pos, end(s.pos)))]
      after[n \in 0 .. Len(text)] ==
        IF n = 0 THEN [pos |-> 1, normalized |-> <<>>] ELSE step(after[n - 1])
  IN  after[Len(text)].normalized

(* What a function has for the elements of a sequence, one behind the other. *)
Joined(s, of) ==
  LET upto[n \in 0 .. Len(s)] == IF n = 0 THEN <<>> ELSE upto[n - 1] \o of[s[n]]
  IN  upto[Len(s)]

(* set_native_kws_triggers: a trigger of symbols only is dropped. *)
NativeKwsTriggers(raws) ==
  LET trigger(raw) == [raw |-> raw, normalized |-> NormalizeNativeKwsText(raw)]
  IN  Joined(raws, [raw \in Range(raws) |-> IF trigger(raw).normalized = <<>> THEN <<>>
                                            ELSE <<trigger(raw)>>])

(* What a line leads to: no callback, on_soundbox_native_kws, or             *)
(* on_soundbox_native_text_kws with a trigger.                             *)
Calls(callback, trigger) == [callback |-> callback, trigger |-> trigger]
Nothing == Calls("none", <<>>)
NativeKwsHeard == Calls("native_kws", <<>>)
TextKwsHeard(raw) == Calls("native_text_kws", raw)

(* The first trigger that the text ends with. *)
MatchNativeTextKws(triggers, text) ==
  LET said == NormalizeNativeKwsText(text)
      hits == { i \in DOMAIN triggers : IsSuffix(triggers[i].normalized, said) }
  IN  IF said = <<>> \/ hits = {} THEN Nothing
      ELSE TextKwsHeard(triggers[CHOOSE i \in hits : \A j \in hits : i <= j].raw)

(* Handle, for an event whose line is a RecognizeResult: the others call      *)
(* nobody back.                                                            *)
Handle(triggers, line) ==
  CASE line.text = <<>> /\ ~line.vad_begin -> NativeKwsHeard
    [] line.text # <<>> /\ line.final -> MatchNativeTextKws(triggers, line.text)
    [] OTHER -> Nothing

-----------------------------------------------------------------------------
(* The same by characters, whatever their bytes.                           *)
CONSTANTS
  Encoding,   (* the bytes of each character                           *)
  Symbols     (* the characters that do not count                      *)

(* Bytes that UTF-8 has for a character: how many is told by the first, and   *)
(* those that follow cannot be taken for a first one.                       *)
Utf8(code) ==
  LET lead == <<0 .. 127, 192 .. 223, 224 .. 239, 240 .. 247>>
  IN  /\ code \in Seq(0 .. 255) /\ Len(code) \in DOMAIN lead
      /\ code[1] \in lead[Len(code)]
      /\ \A i \in 2 .. Len(code) : code[i] \in 128 .. 191

ASSUME EncodingAssumption ==
  /\ \A c \in DOMAIN Encoding : Utf8(Encoding[c])
  /\ \A c, d \in DOMAIN Encoding : Encoding[c] = Encoding[d] => c = d
  /\ \A c \in DOMAIN Encoding :
       c \in Symbols <=> IsIgnoredNativeKwsSymbol(Encoding[c])

Encoded(chars) == Joined(chars, Encoding)
Spoken(chars) ==
  Joined(chars, [c \in DOMAIN Encoding |-> IF c \in Symbols THEN <<>> ELSE <<c>>])

(* What a line whose text has these characters should do: nothing is heard    *)
(* before the text is final, and then the first trigger that it ends with,  *)
(* symbols aside.                                                          *)
Wanted(triggers, chars, final) ==
  LET hits == { i \in DOMAIN triggers : /\ Spoken(triggers[i]) # <<>>
                                        /\ IsSuffix(Spoken(triggers[i]), Spoken(chars)) }
  IN  IF ~final \/ hits = {} THEN Nothing
      ELSE TextKwsHeard(Encoded(triggers[CHOOSE i \in hits : \A j \in hits : i <= j]))
=============================================================================
