----------------------------- MODULE AudioRoute -----------------------------
(***************************************************************************)
(* The mixer of the codec (audio/audio_route.c): how the XML file is made  *)
(* into paths and initial values, how a path is applied to the values that *)
(* are wanted, and how the wanted values reach the controls.               *)
(*                                                                         *)
(* A document is the sequence of events expat delivers: the start of a tag *)
(* with its name and value, or the end of one.  A control's values are all *)
(* alike, as the code assumes, and memory does not run out.                *)
(***************************************************************************)
EXTENDS Integers, Sequences, FiniteSets

CONSTANTS
  Controls,      \* names of the codec's controls
  Documents,     \* the files it may find
  HwValues,      \* values the controls may have before that
  Unreliable,    \* bound: controls that the driver may refuse to set
  None

------------------------------------------------------------------------------
(* A document as a text.                                                   *)

(* The tag at i is inside as many tags as were opened and not closed       *)
(* before it.                                                              *)
DepthIn(d) == [i \in 1 .. Len(d) + 1 |->
  Cardinality({j \in 1 .. i - 1 : d[j].tag # "end"})
    - Cardinality({j \in 1 .. i - 1 : d[j].tag = "end"})]
Top(d, tag) == {i \in DOMAIN d : d[i].tag = tag /\ DepthIn(d)[i] = 1}

(* The tags inside the path that begins at i.                              *)
Inside(d, i) == LET depth == DepthIn(d)
                IN {j \in DOMAIN d : /\ i < j /\ d[j].tag \in {"ctl", "path"}
                                     /\ \A k \in i + 1 .. j : depth[k] > 1}

(* expat checks that tags are nested; the code relies on a setting to be   *)
(* in a path, and a path that names itself means nothing.                  *)
WellFormed(d) ==
  /\ d \in Seq([tag : {"mixer", "path", "ctl", "end"}, name : STRING, value : Int])
  /\ \A i \in DOMAIN d : d[i].tag = "end" => DepthIn(d)[i] > 0
  /\ \A j \in DOMAIN d : d[j].tag \in {"ctl", "path"} /\ DepthIn(d)[j] > 1
       => \E i \in Top(d, "path") : j \in Inside(d, i)
  /\ \A i \in Top(d, "path") : \A j \in Inside(d, i) :
       d[j].tag = "path" => d[j].name # d[i].name

ASSUME DocumentsAssumption == \A d \in Documents : WellFormed(d)
ASSUME ValuesAssumption == HwValues \subseteq Int

(* What select_devices applies, in its order.                              *)
Selections ==
  {s \o h \o m : s \in {<< >>, <<"speaker">>}, h \in {<< >>, <<"headphone">>},
                 m \in {<< >>, <<"main-mic-left">>, <<"main-mic-top">>}}

ASSUME NoneAssumption ==
  None \notin Controls /\ None \notin Selections /\ None \notin [Controls -> Int]

------------------------------------------------------------------------------

VARIABLES
  doc, at, level, path,       \* the parse: events, next one, tags open,
                              \* the path being filled
  paths,                      \* path name -> sequence of settings
  oldValue, newValue, resetValue,      \* mixer_state
  hw,                         \* what the codec has
  missed,                     \* history: controls whose last setting failed
  asked, todo,                \* select_devices: the paths to select (None
                              \* outside of it), the calls to come
  overrun                     \* something was stored beyond mixer_state

parseVars == <<doc, at, level, path, paths>>
vars == <<parseVars, oldValue, newValue, resetValue, hw, missed, asked, todo, overrun>>

(* alloc_mixer_state: what the codec has is known.                         *)
Init ==
  /\ doc \in Documents /\ at = 1 /\ level = 0 /\ path = None
  /\ paths = << >>
  /\ hw \in [Controls -> HwValues]
  /\ oldValue = hw /\ newValue = hw
  /\ resetValue = None /\ missed = {}
  /\ asked = None /\ todo = <<"parse">>
  /\ overrun = FALSE

------------------------------------------------------------------------------
(* The paths.                                                              *)

(* A name the codec does not have gives no control, and that no value.     *)
Setting(name, v) == [ctl   |-> IF name \in Controls THEN name ELSE None,
                     value |-> IF name \in Controls THEN v ELSE 0]
Least(S) == CHOOSE i \in S : \A j \in S : i <= j
Greatest(S) == CHOOSE i \in S : \A j \in S : j <= i

path_setting_exists(s, c) == \E i \in DOMAIN s : s[i].ctl = c

path_add_setting_InFront(s, new) ==                    \* mistake
  IF path_setting_exists(s, new.ctl) THEN s ELSE <<new>> \o s

(* Of two settings of a control in a path the first one stays.             *)
path_add_setting(s, new) ==
  IF path_setting_exists(s, new.ctl) THEN s ELSE Append(s, new)

(* The settings of a sub-path, up to the first one that is there already.  *)
path_add_path(s, sub) ==
  LET dup == {i \in DOMAIN sub : path_setting_exists(s, sub[i].ctl)}
      n == IF dup = {} THEN Len(sub) ELSE Least(dup) - 1
  IN s \o SubSeq(sub, 1, n)

(* The value wanted of a control; a control that is not in the list ends   *)
(* up in the slot behind it.                                               *)
Want(values, s) == IF s.ctl = None THEN values
                   ELSE [values EXCEPT ![s.ctl] = s.value]

(* The settings of a path one after the other: of a control the last one.  *)
path_apply(values, s) ==
  [c \in Controls |-> IF path_setting_exists(s, c)
                      THEN s[Greatest({i \in DOMAIN s : s[i].ctl = c})].value
                      ELSE values[c]]

------------------------------------------------------------------------------
(* The events of the parser.                                               *)

Event == doc[at]
Parsing == todo # << >> /\ todo[1] = "parse" /\ at <= Len(doc)

(* A path name that is there already, or a sub-path that is not, gives a   *)
(* NULL pointer: what the code does then is undefined.                     *)
start_tag_Path ==
  /\ Parsing /\ Event.tag = "path"
  /\ \/ /\ level = 1
        /\ Event.name \notin DOMAIN paths
        /\ paths' = [n \in DOMAIN paths \cup {Event.name} |->
                       IF n = Event.name THEN << >> ELSE paths[n]]
        /\ path' = Event.name
     \/ /\ level > 1
        /\ Event.name \in DOMAIN paths
        /\ paths' = [paths EXCEPT ![path] = path_add_path(@, paths[Event.name])]
        /\ UNCHANGED path
  /\ at' = at + 1 /\ level' = level + 1
  /\ UNCHANGED <<doc, oldValue, newValue, resetValue, hw, missed, asked, todo, overrun>>

(* At the top it is an initial value, in a path a setting of the path.     *)
start_tag_Ctl ==
  LET s == Setting(Event.name, Event.value) IN
  /\ Parsing /\ Event.tag = "ctl"
  /\ \/ /\ level = 1
        /\ newValue' = Want(newValue, s)
        /\ overrun' = (overrun \/ s.ctl = None)
        /\ UNCHANGED paths
     \/ /\ level > 1
        /\ paths' = [paths EXCEPT ![path] = path_add_setting(@, s)]
        /\ UNCHANGED <<newValue, overrun>>
  /\ at' = at + 1 /\ level' = level + 1
  /\ UNCHANGED <<doc, path, oldValue, resetValue, hw, missed, asked, todo>>

start_tag_Other ==
  /\ Parsing /\ Event.tag = "mixer"
  /\ at' = at + 1 /\ level' = level + 1
  /\ UNCHANGED <<doc, path, paths, oldValue, newValue, resetValue, hw, missed, asked, todo, overrun>>

end_tag ==
  /\ Parsing /\ Event.tag = "end"
  /\ at' = at + 1 /\ level' = level - 1
  /\ UNCHANGED <<doc, path, paths, oldValue, newValue, resetValue, hw, missed, asked, todo, overrun>>

------------------------------------------------------------------------------
(* From the values that are wanted to the codec.                           *)

Remembered_Never == oldValue                           \* mistake
Remembered == newValue

Changed == {c \in Controls : oldValue[c] # newValue[c]}

(* update_mixer_state: only the controls whose wanted value has changed    *)
(* are set.  Setting a control may fail; nobody looks, and the value is    *)
(* remembered all the same.                                                *)
WriteChanged ==
  \E failing \in SUBSET (Unreliable \cap Changed) :
    /\ hw' = [c \in Controls |-> IF c \in Changed \ failing THEN newValue[c] ELSE hw[c]]
    /\ missed' = (missed \ Changed) \cup failing
    /\ oldValue' = Remembered

(* The end of audio_route_init: the initial values are set, and saved as   *)
(* the codec has them then.                                                *)
audio_route_init ==
  /\ todo # << >> /\ todo[1] = "parse" /\ at > Len(doc)
  /\ WriteChanged
  /\ resetValue' = hw'
  /\ todo' = << >>
  /\ UNCHANGED <<parseVars, newValue, asked, overrun>>

select_devices ==
  /\ todo = << >>
  /\ \E sel \in Selections : asked' = sel /\ todo' = <<"reset">> \o sel \o <<"update">>
  /\ UNCHANGED <<parseVars, oldValue, newValue, resetValue, hw, missed, overrun>>

reset_mixer_state ==
  /\ todo # << >> /\ todo[1] = "reset"
  /\ newValue' = resetValue
  /\ todo' = Tail(todo)
  /\ UNCHANGED <<parseVars, oldValue, resetValue, hw, missed, asked, overrun>>

audio_route_apply_path ==
  /\ todo # << >> /\ todo[1] \notin {"parse", "reset", "update"}
  /\ IF todo[1] \in DOMAIN paths
     THEN LET s == paths[todo[1]] IN
          /\ newValue' = path_apply(newValue, s)
          /\ overrun' = (overrun \/ \E i \in DOMAIN s : s[i].ctl = None)
     ELSE UNCHANGED <<newValue, overrun>>
  /\ todo' = Tail(todo)
  /\ UNCHANGED <<parseVars, oldValue, resetValue, hw, missed, asked>>

update_mixer_state ==
  /\ todo # << >> /\ todo[1] = "update"
  /\ WriteChanged
  /\ asked' = None /\ todo' = Tail(todo)
  /\ UNCHANGED <<parseVars, newValue, resetValue, overrun>>

Next ==
  \/ start_tag_Path \/ start_tag_Ctl \/ start_tag_Other \/ end_tag
  \/ audio_route_init
  \/ select_devices \/ reset_mixer_state \/ audio_route_apply_path
  \/ update_mixer_state

Spec == Init /\ [][Next]_vars

------------------------------------------------------------------------------
(* Properties.                                                             *)

Settings == [ctl : Controls \cup {None}, value : Int]

(* Every variable keeps its type, and no path sets a control twice.        *)
TypeOK ==
  /\ doc \in Documents /\ at \in 1 .. Len(doc) + 1 /\ level \in Nat
  /\ path \in DOMAIN paths \cup {None}
  /\ \A n \in DOMAIN paths : paths[n] \in Seq(Settings)
  /\ oldValue \in [Controls -> Int] /\ newValue \in [Controls -> Int]
  /\ resetValue \in [Controls -> Int] \cup {None}
  /\ hw \in [Controls -> Int] /\ missed \subseteq Controls
  /\ overrun \in BOOLEAN
  /\ asked \in Selections \cup {None}
  /\ \A n \in DOMAIN paths : \A i, j \in DOMAIN paths[n] :
       paths[n][i].ctl = paths[n][j].ctl => i = j

(* path_add_path gives up at the first control that is there already; what *)
(* it has not added then, the path sets itself.                            *)
DropsNothing ==
  Parsing /\ Event.tag = "path" /\ level > 1 /\ Event.name \in DOMAIN paths =>
    LET sub == paths[Event.name] IN
    \A i, j \in DOMAIN sub :
      i < j /\ path_setting_exists(paths[path], sub[i].ctl)
        => path_setting_exists(paths[path], sub[j].ctl)

------------------------------------------------------------------------------
(* What a file says to one who reads it as a text.                         *)

(* The last word on a control counts.                                      *)
InitialValues == [d \in Documents |->
  [c \in {d[i].name : i \in Top(d, "ctl")} |->
     d[Greatest({i \in Top(d, "ctl") : d[i].name = c})].value]]

PathNames(d) == {d[i].name : i \in Top(d, "path")}
Where(d, name) == CHOOSE i \in Top(d, "path") : d[i].name = name

(* What the tag at j gives, where `says` tells what the paths give.        *)
Word(d, says, j) ==
  IF d[j].tag = "ctl" THEN [c \in {d[j].name} \cap Controls |-> d[j].value]
  ELSE says[d[j].name]

(* Of several words on a control the first one counts.                     *)
Together(words) ==
  [c \in UNION {DOMAIN words[j] : j \in DOMAIN words} |->
     words[Least({j \in DOMAIN words : c \in DOMAIN words[j]})][c]]

(* The values a path gives; a path named in it speaks for all it sets.     *)
PathValues == [d \in Documents |->
  LET says[name \in PathNames(d)] ==
        Together([j \in Inside(d, Where(d, name)) |-> Word(d, says, j)])
  IN says]

(* The controls that words name, whichever word counts, and None where the *)
(* codec does not have the control.                                        *)
WordControls(d, controls, j) ==
  IF d[j].tag = "ctl" THEN {Setting(d[j].name, 0).ctl} ELSE controls[d[j].name]
PathControls == [d \in Documents |->
  LET controls[name \in PathNames(d)] ==
        UNION {WordControls(d, controls, j) : j \in Inside(d, Where(d, name))}
  IN controls]
NamedBefore(d, i, m) ==
  UNION {WordControls(d, PathControls[d], j) : j \in {j \in Inside(d, i) : j < m}}

(* From the first word of a path that repeats a control on, all its words  *)
(* only repeat controls, wherever the path is named in another one.        *)
Tidy(d) ==
  /\ \A i \in Top(d, "path") : PathControls[d][d[i].name] = NamedBefore(d, i, Len(d) + 1)
  /\ \A i, h \in Top(d, "path") : \A j \in Inside(d, i) :
       d[j].tag = "path" /\ d[j].name = d[h].name =>
         \A u, v \in Inside(d, h) :
           /\ u <= v
           /\ WordControls(d, PathControls[d], u) \cap NamedBefore(d, i, j) # {}
           => WordControls(d, PathControls[d], v) \subseteq NamedBefore(d, i, j)

Promised == INSTANCE Codec WITH
  initial <- InitialValues[doc], effect <- PathValues[doc],
  base <- resetValue, shown <- hw

(* What is remembered of a control is what the codec has, so that leaving  *)
(* out a write is right, however often paths were selected; unless the     *)
(* last setting of the control failed, after which it is not tried again   *)
(* before another value is wanted.                                         *)
RemembersTheCodec == \A c \in Controls \ missed : oldValue[c] = hw[c]

(* The codec shows what was selected last, and nothing of what was before: *)
(* the parse, the wanted and the remembered values together do what        *)
(* audio_route.h promises, though only changed values are written and some *)
(* writes fail; only a control whose last setting failed stays as it was.  *)
ShowsTheSelection == Promised!Spec

(* "locate the mixer ctl in the list [...] apply the new value": a value   *)
(* is stored in the list.                                                  *)
StoresInTheList == ~overrun

==============================================================================
