----------------------------- MODULE MCProvider -----------------------------
(***************************************************************************)
(* A provider is asked for one answer, a text or an image.  The two share  *)
(* nothing, so a behaviour is of one of them and the other never starts.   *)
(***************************************************************************)
EXTENDS ProviderStream, ImageTask

VARIABLE asked

MCInit == Init /\ ImageInit /\ asked \in {"text", "image"}

Text(step) == asked = "text" /\ step
Image(step) == asked = "image" /\ step

MCNext ==
  /\ \/ Text(Next) /\ UNCHANGED imageVars
     \/ Image(ImageNext) /\ UNCHANGED vars
  /\ UNCHANGED asked

\* The fairness of Spec and that of ImageSpec.
MCSpec ==
  /\ MCInit /\ [][MCNext]_<<vars, imageVars, asked>>
  /\ WF_vars(Text(AbortRead))
  /\ WF_imageVars(Image(Client)) /\ WF_imageVars(Image(Tick))

=============================================================================
