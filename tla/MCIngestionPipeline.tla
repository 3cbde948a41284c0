-------------------------- MODULE MCIngestionPipeline --------------------------
(***************************************************************************)
(* The two deployments of IngestionPipeline that TLC checks.               *)
(***************************************************************************)
EXTENDS IngestionPipeline

CONSTANTS streamWorker, api

\* infra/macmini/docker-compose.preview-v07.live.yml: the stream worker alone, in
\* postgres-only mode (Integrated is empty).
PreviewConsumers == {streamWorker}

\* infra/macmini/docker-compose.yml: it and the API, both on the integration
\* runtime.
IntegrationConsumers == {streamWorker, api}
=============================================================================
