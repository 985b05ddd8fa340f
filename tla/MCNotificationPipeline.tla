------------------------ MODULE MCNotificationPipeline ------------------------
(* Small instances of NotificationPipeline. *)
EXTENDS NotificationPipeline

MCRegistries == {Plugins, {}}
==============================================================================
