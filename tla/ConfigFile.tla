----------------------------- MODULE ConfigFile -----------------------------
(***************************************************************************)
(* apm.yaml, as src/src/config/application.cpp writes and reads it.  A file *)
(* is a sequence of lines; a line is its indentation, its key and the value *)
(* behind the colon, with comments, blanks and quotes removed.  Of the      *)
(* options one of each kind is kept: plain text, text that is validated     *)
(* later, numbers, flags, lists, an option with two names, and one that     *)
(* sets another.                                                           *)
(***************************************************************************)
EXTENDS Integers, Sequences, FiniteSetsExt

CONSTANT None       (* nothing behind the colon, no section, no file: no value *)

ItemKey == "-"      (* the line is an item of a list *)
NoKey   == "?"      (* the line has no colon *)
Comment == "#"      (* nothing is left of the line *)

Line(indent, key, value) == [indent |-> indent, key |-> key, value |-> value]
Header(indent, key) == Line(indent, key, None)
Item(value) == Line(4, ItemKey, value)

-----------------------------------------------------------------------------
(* ApplyConfigEntry: the option that each key sets has the name of the key,  *)
(* but for two.                                                            *)
Keys ==
  { <<"socket_dir">>, <<"delay_ms">>,
    <<"soundbox", "ws_url">>, <<"soundbox", "ws_token">>,
    <<"soundbox", "wakeup_ack_texts">>, <<"soundbox", "native_kws_triggers">>,
    <<"wakeup", "say_hello">>, <<"wakeup", "keywords_file">>,
    <<"aec", "delay_ms">>, <<"aec", "ns_level">>,
    <<"pre_aec_auto_gain", "enabled">>, <<"aec", "pre_aec_auto_gain", "enabled">> }

OptionOf ==
  [k \in Keys |-> CASE k[Len(k)] = "say_hello" -> "wakeup_ack_texts"
                    [] k[Len(k)] = "enabled"   -> "auto_gain"
                    [] OTHER -> k[Len(k)]]

Options == { OptionOf[k] : k \in DOMAIN OptionOf }
Lists == {"wakeup_ack_texts", "native_kws_triggers"}

ListKeys == { <<"soundbox", l>> : l \in Lists }

(* ParseInt, ParseBool, ParseNoiseSuppressionLevel. *)
Accepted(option, value) ==
  CASE option = "delay_ms"  -> value \in {"10", "40"}
    [] option = "auto_gain" -> value \in {"true", "false"}
    [] option = "ns_level"  -> value \in {"low", "high"}
    [] OTHER -> TRUE

(* ParseStringList, for a list of one item or none.  *)
Converted(option, value) ==
  IF option \notin Lists THEN value ELSE IF value = "" THEN <<>> ELSE <<value>>

-----------------------------------------------------------------------------
(* LoadConfigFile: a line after the other, from this state. *)
Reader(defaults) ==
  [section |-> None, subsection |-> None, sequence |-> None,
   options |-> defaults, failed |-> FALSE]

Failed(r) == [r EXCEPT !.failed = TRUE]

AddItem(r, line) ==
  IF r.sequence = None \/ line.value = None THEN Failed(r)
  ELSE IF line.value = "" THEN r
  ELSE [r EXCEPT !.options[r.sequence] = Append(@, line.value)]

(* BeginConfigSequence *)
OpenList(r, key) ==
  [r EXCEPT !.subsection = None, !.sequence = key, !.options[key] = <<>>]

Open(r, line) ==
  IF line.indent = 0
  THEN [r EXCEPT !.section = line.key, !.subsection = None, !.sequence = None]
  ELSE IF r.section = None THEN Failed(r)
  ELSE IF <<r.section, line.key>> \in ListKeys THEN OpenList(r, line.key)
  ELSE [r EXCEPT !.subsection = line.key, !.sequence = None]

(* Mutant: the indentation of the line is not looked at. *)
FullKeyOfSubsection(r, line) ==
  IF line.indent = 0 THEN <<line.key>>
  ELSE IF r.subsection # None
  THEN <<r.section, r.subsection, line.key>> ELSE <<r.section, line.key>>

FullKey(r, line) ==
  IF line.indent = 0 THEN <<line.key>>
  ELSE IF line.indent >= 4 /\ r.subsection # None
  THEN <<r.section, r.subsection, line.key>> ELSE <<r.section, line.key>>

(* ApplyConfigEntry *)
Apply(r, key, value) ==
  IF key \notin DOMAIN OptionOf \/ ~Accepted(OptionOf[key], value) THEN Failed(r)
  ELSE [r EXCEPT !.options[OptionOf[key]] = Converted(OptionOf[key], value)]

Entry(r, line) ==
  IF line.indent > 0 /\ r.section = None THEN Failed(r)
  ELSE Apply(IF line.indent = 0
             THEN [r EXCEPT !.section = None, !.subsection = None, !.sequence = None]
             ELSE [r EXCEPT !.sequence = None],
             FullKey(r, line), line.value)

ReadLine(r, line) ==
  CASE r.failed \/ line.key = Comment -> r
    [] ~r.failed /\ line.key = ItemKey -> AddItem(r, line)
    [] ~r.failed /\ line.key = NoKey -> Failed(r)
    [] OTHER -> IF line.value = None THEN Open(r, line) ELSE Entry(r, line)

(* The options after LoadConfigFile, or None if it throws. *)
Load(defaults, file) ==
  LET after[n \in 0 .. Len(file)] ==
        IF n = 0 THEN Reader(defaults) ELSE ReadLine(after[n - 1], file[n])
      r == after[Len(file)]
  IN  IF r.failed THEN None ELSE r.options

-----------------------------------------------------------------------------
Items(texts) == [i \in DOMAIN texts |-> Item(texts[i])]

(* WriteDefaultConfig *)
DefaultFile(d) ==
  << Line(0, Comment, None),
     Line(0, "socket_dir", d.socket_dir), Header(0, "soundbox"),
     Line(2, "ws_url", d.ws_url), Line(2, "ws_token", d.ws_token),
     Header(2, "wakeup_ack_texts") >> \o Items(d.wakeup_ack_texts)
  \o << Header(2, "native_kws_triggers") >> \o Items(d.native_kws_triggers)
  \o << Header(0, "wakeup"), Line(2, "keywords_file", d.keywords_file),
        Header(0, "aec"), Line(2, "delay_ms", d.delay_ms),
        Header(2, "pre_aec_auto_gain"), Line(4, "enabled", d.auto_gain),
        Line(2, "ns_level", d.ns_level) >>

-----------------------------------------------------------------------------
(* A sequence of lines. *)
IsFile(f) ==
  /\ Len(f) \in Nat /\ DOMAIN f = 1 .. Len(f)
  /\ \A i \in DOMAIN f : f[i].indent \in Nat

(* What a file says, by the rules of YAML: the key of a line is its path     *)
(* through the lines that enclose it, and the last line for an option counts. *)

Lines(file) == { i \in DOMAIN file : file[i].key # Comment }

(* The line that encloses line i: the last one before it that is less       *)
(* indented, or 0.                                                         *)
Parent(file, i) ==
  Max({0} \cup { j \in Lines(file) : j < i /\ file[j].indent < file[i].indent })

(* A file has three levels at most. *)
Path(file, i) ==
  LET p == Parent(file, i)  q == Parent(file, p)
  IN  IF p = 0 THEN <<file[i].key>>
      ELSE IF q = 0 THEN <<file[p].key, file[i].key>>
      ELSE <<file[q].key, file[p].key, file[i].key>>

(* Two blanks per level, items only below the key of a list, and only keys   *)
(* and values that the program knows.                                      *)
WellFormedLine(file, i) ==
  LET p == Parent(file, i)  l == file[i]  IN
  /\ l.indent = IF p = 0 THEN 0 ELSE file[p].indent + 2
  /\ p # 0 => file[p].value = None
  /\ l.key \notin {NoKey, None}
  /\ (l.key = ItemKey) <=> (p # 0 /\ Path(file, p) \in ListKeys)
  /\ IF l.value = None THEN l.key # ItemKey /\ l.indent <= 2
     ELSE \/ l.key = ItemKey
          \/ /\ Path(file, i) \in DOMAIN OptionOf
             /\ Accepted(OptionOf[Path(file, i)], l.value)

WellFormed(file) == \A i \in Lines(file) : WellFormedLine(file, i)

(* The lines that set an option. *)
Setters(file, o) ==
  { i \in Lines(file) : /\ Path(file, i) \in DOMAIN OptionOf
                        /\ OptionOf[Path(file, i)] = o
                        /\ file[i].value # None \/ Path(file, i) \in ListKeys }

(* The items of a list, those without a text left out. *)
ItemsOf(file, list) ==
  LET upto[n \in 0 .. Len(file)] ==
        IF n = 0 THEN <<>>
        ELSE IF n \in Lines(file) /\ Parent(file, n) = list /\ file[n].value # ""
        THEN Append(upto[n - 1], file[n].value) ELSE upto[n - 1]
  IN  upto[Len(file)]

Meaning(defaults, file) ==
  [o \in Options |->
     IF Setters(file, o) = {} THEN defaults[o]
     ELSE LET i == Max(Setters(file, o)) IN
            IF file[i].value = None THEN ItemsOf(file, i) ELSE Converted(o, file[i].value)]
=============================================================================
