--------------------------- MODULE MCNotifyQueue ---------------------------
(* NotifyQueue for TLC: two contacts, three sets of providers.               *)
EXTENDS NotifyQueue, TLC

Both == <<[channel |-> "email", to |-> "guardian_email"],
          [channel |-> "auto", to |-> "guardian_phone"]>>

SmsAndMail == [c \in {"whatsapp", "sms", "email"} |-> IF c = "whatsapp" THEN "off" ELSE "on"]
MailOnly == [SmsAndMail EXCEPT !["sms"] = "off"]
BadPort == [MailOnly EXCEPT !["email"] = "bad"]
AllThree == {SmsAndMail, MailOnly, BadPort}
============================================================================
