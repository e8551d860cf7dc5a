--------------------------- MODULE DesktopEditor ---------------------------
(***************************************************************************)
(* One file in the desktop's editor: the tab and saveActive of             *)
(* DesktopApp.tsx, and Workspace.save of desktop/src/main/workspace.ts,    *)
(* which compares versions before it writes a temporary file and again     *)
(* before it renames that over the file.  The agent, or any other program, *)
(* may write the file at every moment.                                     *)
(*                                                                         *)
(* A content is a number, and its own version (the code takes a hash).     *)
(***************************************************************************)
EXTENDS Naturals

CONSTANTS MaxContents,  \* contents the file and the editor ever have
          MaxSaves      \* 'save' requests of the window

ASSUME EditorAssumption == MaxContents \in Nat /\ MaxSaves \in Nat \ {0}

VARIABLES file,      \* the content on disk
          temporary, \* the save whose temporary file is on disk, or 0
          tab,       \* the tab: content, version, dirty
          saves,     \* each 'save' request; late: the file was written after its last look
          contents   \* contents made so far

editorVars == <<file, temporary, tab, saves, contents>>

SaveIds == 1..MaxSaves
NoSave == [pc |-> "none", content |-> 0, version |-> 0, late |-> FALSE]
NoTab == [open |-> FALSE, content |-> 0, version |-> 0, dirty |-> FALSE]

EditorInit ==
  /\ file = 0 /\ contents = 0 /\ temporary = 0
  /\ tab = NoTab
  /\ saves = [n \in SaveIds |-> NoSave]

\* openFile of a path without a tab: read.
OpenFile ==
  /\ ~tab.open
  /\ tab' = [open |-> TRUE, content |-> file, version |-> file, dirty |-> FALSE]
  /\ UNCHANGED <<file, temporary, saves, contents>>

\* onChange of the editor.
Type ==
  /\ tab.open /\ contents < MaxContents
  /\ contents' = contents + 1
  /\ tab' = [tab EXCEPT !.content = contents + 1, !.dirty = TRUE]
  /\ UNCHANGED <<file, temporary, saves>>

CloseTab ==
  /\ tab.open /\ ~tab.dirty
  /\ tab' = NoTab
  /\ UNCHANGED <<file, temporary, saves, contents>>

\* The agent writes the file.
WriteOutside ==
  /\ contents < MaxContents
  /\ contents' = contents + 1
  /\ file' = contents + 1
  /\ saves' = [n \in SaveIds |-> [saves[n] EXCEPT !.late = @ \/ saves[n].pc = "rename"]]
  /\ UNCHANGED <<temporary, tab>>

-----------------------------------------------------------------------------

\* saveActive sends what the tab holds now; it may be pressed again before the answer.
SaveActive ==
  /\ tab.open
  /\ \E n \in SaveIds :
        /\ saves[n].pc = "none" /\ \A m \in 1..n - 1 : saves[m].pc # "none"
        /\ saves' = [saves EXCEPT ![n] = [NoSave EXCEPT !.pc = "resolve",
                                            !.content = tab.content, !.version = tab.version]]
  /\ UNCHANGED <<file, temporary, tab, contents>>

\* The path is resolved; `saving` holds the targets of the saves under way.
BeginSave(n) ==
  /\ saves[n].pc = "resolve"
  /\ LET saving == \E m \in SaveIds : saves[m].pc \in {"read", "write", "compare", "rename"}
     IN  saves' = [saves EXCEPT ![n].pc = IF saving THEN "refused" ELSE "read"]
  /\ UNCHANGED <<file, temporary, tab, contents>>

\* The finally clause removes the temporary file, whoever made it.
Give(n, answer) ==
  /\ saves' = [saves EXCEPT ![n].pc = answer]
  /\ temporary' = 0
  /\ UNCHANGED <<tab, contents>>

Advance(n, next) ==
  /\ saves' = [saves EXCEPT ![n].pc = next]
  /\ UNCHANGED <<file, tab, contents>>

\* `before.version !== version`, or the file cannot be read; stat.
CompareBefore(n) ==
  /\ saves[n].pc = "read"
  /\ \/ Give(n, "refused") /\ UNCHANGED file
     \/ file = saves[n].version /\ Advance(n, "write") /\ UNCHANGED temporary

\* Flag 'wx': it fails when there is one, or for want of space.
WriteTemporary(n) ==
  /\ saves[n].pc = "write"
  /\ \/ Give(n, "refused") /\ UNCHANGED file
     \/ temporary = 0 /\ Advance(n, "compare") /\ temporary' = n

\* Mutant: the file is compared once, before the temporary file is written.
CompareNoMore(n) ==
  /\ saves[n].pc = "compare"
  /\ Advance(n, "rename") /\ UNCHANGED temporary

CompareAgain(n) ==
  /\ saves[n].pc = "compare"
  /\ \/ Give(n, "refused") /\ UNCHANGED file
     \/ file = saves[n].version /\ Advance(n, "rename") /\ UNCHANGED temporary

Rename(n) ==
  /\ saves[n].pc = "rename"
  /\ \/ Give(n, "refused") /\ UNCHANGED file
     \/ temporary # 0 /\ Give(n, "saved") /\ file' = saves[temporary].content

\* The tab of that path is clean from now on, whatever was typed meanwhile.
ReceiveAnswer(n) ==
  /\ saves[n].pc \in {"saved", "refused"}
  /\ tab' = IF saves[n].pc = "saved" /\ tab.open
            THEN [tab EXCEPT !.version = saves[n].content, !.dirty = FALSE] ELSE tab
  /\ saves' = [saves EXCEPT ![n].pc = "answered"]
  /\ UNCHANGED <<file, temporary, contents>>

EditorNext ==
  \/ OpenFile \/ Type \/ CloseTab \/ WriteOutside \/ SaveActive
  \/ \E n \in SaveIds : BeginSave(n) \/ CompareBefore(n) \/ WriteTemporary(n)
                        \/ CompareAgain(n) \/ Rename(n) \/ ReceiveAnswer(n)

EditorSpec == EditorInit /\ [][EditorNext]_editorVars

-----------------------------------------------------------------------------

\* A save that is answered with success has put its own content on disk, over the content
\* it was based on; only a write after its second look can be lost.
SaveReplacesWhatWasRead ==
  [][\A n \in SaveIds : saves[n].pc = "rename" /\ saves'[n].pc = "saved" =>
        /\ file' = saves[n].content
        /\ file = saves[n].version \/ saves[n].late]_editorVars

\* The status bar says "All changes saved" (DesktopApp.tsx) when no tab is dirty: the
\* content of a clean tab is the version that was read or saved.
CleanTabIsSaved == tab.open /\ ~tab.dirty => tab.content = tab.version
=============================================================================
