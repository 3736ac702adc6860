------------------------------ MODULE UploadPage ------------------------------
(***************************************************************************)
(* Pages/MyConstract/Index.cshtml: a file is chosen, a confirm box asks    *)
(* whether to upload it, and "yes" submits the form.  The box names the    *)
(* file that was chosen when it was opened; the form sends the file that   *)
(* is chosen when it is submitted.  The backdrop keeps the mouse from the  *)
(* page behind a box, but not the keyboard.                                *)
(***************************************************************************)
EXTENDS MessageBoxes

CONSTANT File

NoFile == "no file"

VARIABLES
    file,      \* the value of #myfile
    named,     \* the file each box asks about
    upload,    \* the last submission: the box that was answered, the file sent
    behind     \* history: the value has changed while a box was in the document

uploadVars == <<file, named, upload, behind>>

UploadInit ==
    /\ file = NoFile
    /\ named = [b \in Box |-> NoFile]
    /\ upload = <<>>
    /\ behind = FALSE

(* Mutant: the message is made of the value before the change.             *)
ChooseFileEarly ==
    \E f \in (File \cup {NoFile}) \ {file}, b \in Box :
        /\ file' = f
        /\ behind' = (behind \/ doc # {})
        /\ Confirm(b, [callback |-> TRUE])
        /\ named' = [named EXCEPT ![b] = file]
        /\ UNCHANGED upload

(* The file dialog, and the change event if the value is another one; a    *)
(* dialog that is cancelled leaves no file.                                *)
ChooseFile ==
    \E f \in (File \cup {NoFile}) \ {file} :
        /\ file' = f
        /\ behind' = (behind \/ doc # {})
        /\ \/ f = NoFile /\ UNCHANGED <<named, boxVars>>
           \/ \E b \in Box :
                 /\ f # NoFile
                 /\ Confirm(b, [callback |-> TRUE])
                 /\ named' = [named EXCEPT ![b] = f]
        /\ UNCHANGED upload

(* The callback: the form is submitted, or the file input cleared.         *)
AnswerBox(b, type) ==
    /\ ClickButton(b, type)
    /\ \/ type = "yes" /\ upload' = <<b, file>> /\ UNCHANGED file
       \/ type # "yes" /\ file' = NoFile /\ UNCHANGED upload
    /\ UNCHANGED <<named, behind>>

(* The answer to the submission brings the page anew.                      *)
Redirected ==
    /\ upload # <<>>
    /\ file' = NoFile /\ named' = [b \in Box |-> NoFile] /\ upload' = <<>> /\ behind' = FALSE
    /\ opt' = <<>> /\ doc' = {} /\ hidden' = {} /\ unbound' = {} /\ backdrop' = FALSE
    /\ pending' = [b \in Box |-> <<>>]
    /\ UNCHANGED <<loading, progressVars>>

UploadNext ==
    \/ ChooseFile
    \/ \E b \in Box, type \in Answer : AnswerBox(b, type)
    \/ (BoxEvents \/ Timers) /\ UNCHANGED uploadVars
    \/ Redirected

UploadTypeOK ==
    /\ file \in File \cup {NoFile}
    /\ named \in [Box -> File \cup {NoFile}]
    /\ upload = <<>> \/ upload \in Box \X (File \cup {NoFile})
    /\ behind \in BOOLEAN

(* The answered box has asked about the file that is sent, also when "yes"  *)
(* is clicked again while the box goes and when boxes before it were       *)
(* closed without an answer, unless the file input was changed behind an   *)
(* open box.  After "no" the same box may still send the form, empty.      *)
UploadIsNamed == upload # <<>> => behind \/ upload[2] \in {named[upload[1]], NoFile}
=============================================================================
