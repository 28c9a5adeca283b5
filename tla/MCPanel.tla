------------------------------ MODULE MCPanel ------------------------------
(***************************************************************************)
(* The components behind the panel side by side: each behaviour is one of  *)
(* the component that part names, the others keep their initial state.     *)
(***************************************************************************)
EXTENDS Revisions, Delivery, Webhooks, Apps, Dns, Events, Updates

VARIABLE part   \* the component that runs

Parts == {"revisions", "delivery", "webhooks", "apps", "dns", "events", "updates"}

PanelInit ==
    /\ part \in Parts
    /\ Init
    /\ DeliveryInit
    /\ WebhookInit
    /\ AppsInit
    /\ DnsInit
    /\ EventInit
    /\ UpdateInit

StepRevisions ==
    /\ part = "revisions" /\ Next
    /\ UNCHANGED <<part, deliveryVars, webhookVars, appsVars, dnsVars, eventVars, updateVars>>
StepDelivery ==
    /\ part = "delivery" /\ DeliveryNext
    /\ UNCHANGED <<part, vars, webhookVars, appsVars, dnsVars, eventVars, updateVars>>
StepWebhooks ==
    /\ part = "webhooks" /\ WebhookNext
    /\ UNCHANGED <<part, vars, deliveryVars, appsVars, dnsVars, eventVars, updateVars>>
StepApps ==
    /\ part = "apps" /\ AppsNext
    /\ UNCHANGED <<part, vars, deliveryVars, webhookVars, dnsVars, eventVars, updateVars>>
StepDns ==
    /\ part = "dns" /\ DnsNext
    /\ UNCHANGED <<part, vars, deliveryVars, webhookVars, appsVars, eventVars, updateVars>>
StepEvents ==
    /\ part = "events" /\ EventNext
    /\ UNCHANGED <<part, vars, deliveryVars, webhookVars, appsVars, dnsVars, updateVars>>
StepUpdates ==
    /\ part = "updates" /\ UpdateNext
    /\ UNCHANGED <<part, vars, deliveryVars, webhookVars, appsVars, dnsVars, eventVars>>

PanelNext ==
    \/ StepRevisions
    \/ StepDelivery
    \/ StepWebhooks
    \/ StepApps
    \/ StepDns
    \/ StepEvents
    \/ StepUpdates

PanelVars == <<part, vars, deliveryVars, webhookVars, appsVars, dnsVars, eventVars, updateVars>>

PanelSpec == PanelInit /\ [][PanelNext]_PanelVars
=============================================================================
