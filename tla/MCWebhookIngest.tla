-------------------------- MODULE MCWebhookIngest --------------------------
(* WebhookIngest for TLC: a call with two of every event that matters. *)
EXTENDS WebhookIngest, TLC

MCKindOf == ("init" :> "initiated") @@ ("ring" :> "ringing")
         @@ ("ans1" :> "answered")  @@ ("ans2" :> "answered")
         @@ ("media" :> "media_started") @@ ("dtmf" :> "dtmf")
         @@ ("hup1" :> "hangup") @@ ("hup2" :> "hangup")
         @@ ("rec" :> "recording_started")
         @@ ("save1" :> "recording_saved") @@ ("save2" :> "recording_saved")

(* The second answer is stamped later than the first hangup. *)
MCAtOf == ("init" :> 0) @@ ("ring" :> 1) @@ ("ans1" :> 2) @@ ("ans2" :> 6)
       @@ ("media" :> 3) @@ ("dtmf" :> 3) @@ ("hup1" :> 5) @@ ("hup2" :> 8)
       @@ ("rec" :> 3) @@ ("save1" :> 7) @@ ("save2" :> 7)

(* The second save carries no recording id. *)
MCRecordingOf == [e \in DOMAIN MCKindOf |-> IF e = "save1" THEN {"r"} ELSE {}]
=============================================================================
