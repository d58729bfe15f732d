---------------------------- MODULE MCAudioRoute ----------------------------
(* configs/mixer_paths.xml, and a file that uses what that one does not:   *)
(* paths in paths, a control named twice, an initial value given twice.    *)
(* Where a path is named that repeats a control, path_add_path stops in    *)
(* the middle of it; what is behind is repeated too.                       *)
EXTENDS AudioRoute

Start(tag, name, value) == [tag |-> tag, name |-> name, value |-> value]
End == [tag |-> "end", name |-> "", value |-> 0]
C(name, value) == <<Start("ctl", name, value), End>>
P(name, body) == <<Start("path", name, 0)>> \o body \o <<End>>
Mixer(body) == <<Start("mixer", "", 0)>> \o body \o <<End>>

(* The spaces of the initial "DMIC Mute Right " are those of the file.     *)
Shipped == Mixer(
  C("DMIC Mute Left", 1) \o C("DMIC Mute Right ", 1) \o C("Int Spk Switch", 0)
  \o C("DMIC Capture Switch", 0) \o C("Int Mic Switch", 0)
  \o P("speaker", C("DMIC Mute Left", 0) \o C("DMIC Mute Right", 0)
                   \o C("Int Spk Switch", 1))
  \o P("headphone", C("DMIC Mute Left", 0) \o C("DMIC Mute Right", 0)
                   \o C("Int Spk Switch", 0) \o C("Headphone Jack Switch", 1))
  \o P("main-mic-top", C("DMIC Capture Switch", 1) \o C("DMIC Mute Left", 0)
                   \o C("DMIC Mute Right", 0) \o C("Int Mic Switch", 1))
  \o P("main-mic-left", C("DMIC Capture Switch", 1) \o C("DMIC Mute Left", 0)
                   \o C("DMIC Mute Right", 0) \o C("Int Mic Switch", 1))
  \o P("headset-mic", << >>))

Nested == Mixer(
  C("Int Spk Switch", 1) \o C("Int Mic Switch", 1) \o C("Int Spk Switch", 0)
  \o P("open", C("DMIC Mute Left", 0) \o C("Int Mic Switch", 1)
                   \o C("DMIC Capture Switch", 0))
  \o P("speaker", C("Int Spk Switch", 1) \o C("Int Spk Switch", 0) \o P("open", << >>))
  \o P("main-mic-top", P("open", << >>) \o C("Int Mic Switch", 0)
                   \o C("Headphone Jack Switch", 1))
  \o P("main-mic-left", C("Int Mic Switch", 0) \o C("DMIC Capture Switch", 1)
                   \o P("open", C("DMIC Capture Switch", 0))))

MCDocuments == {Shipped, Nested}
OnlyShipped == {Shipped}

(* The codec names the control without the space.                          *)
MCControls == {"DMIC Mute Left", "DMIC Mute Right", "Int Spk Switch",
               "DMIC Capture Switch", "Int Mic Switch", "Headphone Jack Switch"}

(* The hypothesis on the files under which nothing is dropped.             *)
ASSUME FilesAreTidy == \A d \in Documents : Tidy(d)
==============================================================================
